---- MODULE Spec2Model ----
(***************************************************************************)
(* A model of the digitalarchive client library: the entity model with its *)
(* partial-value sentinel (models.py), equality and hashing of entities,   *)
(* hydration (pull / merge / re-initialise), assets and recursive          *)
(* hydration, the query matcher with its lazy pagination (matching.py),    *)
(* and the asynchronous Hydrator (hydrator.py).                            *)
(*                                                                         *)
(* The specifications of the module:                                       *)
(*   SpecEq       entities are constructed and added to a Python set       *)
(*   SpecHydrate  one entity is constructed, then pulled / hydrated        *)
(*   SpecMatch    one match call, then the result set is consumed          *)
(*   SpecQuery    match calls with free-text, date and relation filters    *)
(*   SpecTree     a Document with attached records is hydrated             *)
(*   SpecAsync    the tasks of one Hydrator.rehydrate() interleave         *)
(***************************************************************************)
EXTENDS Integers, Sequences, FiniteSets, TLC

VARIABLES
    call,       \* SpecMatch: the match call made, [entry, kind, kwargs, ipp]
    server,     \* SpecMatch: the archive the call ran against, [n, failAt]
    matcher,    \* SpecMatch: the ResourceMatcher: raised, kind, query, count, list
    drained,    \* SpecMatch: what list(resultset.all()) gave, [items, result]
    phase,      \* SpecMatch: "idle", "matched", "raised", "advanced", "drained"
    ops,        \* SpecMatch: the accesses to the result set so far, in order
    handed,     \* SpecMatch, SpecQuery: the keyword arguments match passed to the matcher
    insts,      \* SpecEq: the entity instances constructed so far (index = object identity)
    pyset,      \* SpecEq: a Python set of instances (indices into insts)
    offered,    \* SpecEq: the instances set.add() was called with
    inst,       \* SpecHydrate: the entity instance under hydration [kind, f]
    pre,        \* SpecHydrate: field values before the last pull()/hydrate() call
    post,       \* SpecHydrate: freshly fetched and parsed field values of the last call
    lastop,     \* SpecHydrate: "none" | "construct" | "pull" | "hydrate"
    outcome,    \* SpecHydrate: "none" | "ok" | "fetch_error" | "TypeError" | "IndexError"
    status,     \* SpecHydrate: HTTP status of the last by-ID fetch (0: none yet)
    lastget,    \* SpecHydrate: the last by-ID request, [endpoint, resource_id]
    tree,       \* SpecTree: a Document with its attached records, [exists, own, kids]
    walk,       \* SpecTree: the position of the Document.hydrate call under way
    gathered,   \* SpecAsync: the rehydrate() call, [running, records, max_concurrent_requests]
    taskpc,     \* SpecAsync: the position of each gathered hydrate_record task
    semaphore,  \* SpecAsync: the value of the asyncio.Semaphore
    dicts,      \* SpecAsync: the record dicts, by instance: "stub" or "full"
    net         \* the requests issued to the transport so far

eqvars == <<insts, pyset, offered>>
hydvars == <<inst, pre, post, lastop, outcome, status, lastget>>
matchvars == <<call, server, matcher, drained, phase, ops, handed>>
treevars == <<tree, walk>>
asyncvars == <<gathered, taskpc, semaphore, dicts>>

-----------------------------------------------------------------------------
(* Bounds of the model. *)

MaxId == 2          \* ids (of entities and of nested records) range over 1..MaxId
MaxStr == 2         \* plain string values range over 1..MaxStr
MaxInst == 2        \* SpecEq: number of instances constructed

-----------------------------------------------------------------------------
(* Values.  Every value is a record [t, v]: t is the Python type of the    *)
(* value, v tells values of one type apart.                                *)

\* models.UnhydratedField: the class object used as the partial-value sentinel.
UnhydratedField == [t |-> "UnhydratedField", v |-> 0]
None == [t |-> "None", v |-> 0]
\* A key that a mapping (JSON object, keyword arguments) does not hold.
Absent == [t |-> "absent", v |-> 0]
\* The string numbered n.  A string of digits has the number it spells, so
\* "19890414" is Str(19890414); every string has as many characters as its
\* number has digits.
Str(n) == [t |-> "str", v |-> n]
RECURSIVE Digits(_)
Digits(n) == IF n < 10 THEN 1 ELSE 1 + Digits(n \div 10)
StrLen(x) == Digits(x.v)
IntVal(n) == [t |-> "int", v |-> n]
\* A raw JSON object describing a nested record with id n.
Dict(n) == [t |-> "dict", v |-> n]
\* A parsed entity (a Resource instance) with id n.
Entity(n) == [t |-> "entity", v |-> n]
EmptyList == [t |-> "list", v |-> 0]
\* A non-empty list of raw JSON objects / of parsed entities.
ListOfDict(n) == [t |-> "list_of_dict", v |-> n]
ListOfEntity(n) == [t |-> "list_of_entity", v |-> n]
\* datetime.date(y, m, d)
Date(y, m, d) == [t |-> "date", v |-> <<y, m, d>>]
\* datetime.datetime parsed from the string Str(n).
Datetime(n) == [t |-> "datetime", v |-> n]
\* Document._parse_date_range_start(doc_date): int(doc_date[:4]),
\* int(doc_date[4:6]), int(doc_date[-2:]) of a YYYYMMDD string.
parse_date_range_start(doc_date) ==
    Date(doc_date.v \div 10000, (doc_date.v \div 100) % 100, doc_date.v % 100)
\* The "begin" of the archive's date range, the date of its earliest record.
DateRangeBegin == Str(19890414)

\* Ids as callers and the server write them: strings, or (as the tests do) ints.
StrIds == {Str(n) : n \in 1..MaxId}
IdVals == StrIds \cup {IntVal(1)}
StrVals == {Str(n) : n \in 1..MaxStr}

-----------------------------------------------------------------------------
(* The entity kinds and their dataclass schema.                            *)

Kinds == {"Subject", "Contributor", "Repository", "Coverage", "Collection",
          "Document", "Theme"}

\* The fields of each kind that an instance of the model carries.  Of the
\* long field lists of Collection, Document and Theme, one field per parsing
\* rule of __post_init__ is kept.
Fields(kind) ==
    CASE kind = "Subject"     -> {"id", "name", "value", "uri"}
      [] kind = "Contributor" -> {"id", "name", "value", "uri"}
      [] kind = "Repository"  -> {"id", "name", "uri", "value"}
      [] kind = "Coverage"    -> {"id", "name", "uri", "value", "parent", "children"}
      [] kind = "Collection"  -> {"id", "name", "slug", "source_created_at"}
      [] kind = "Document"    -> {"id", "title", "source", "type", "subjects",
                                  "date_range_start"}
      [] kind = "Theme"       -> {"id", "slug", "title", "featured_collections"}

\* Fields declared without a default: __init__ raises TypeError without them.
Required(kind) ==
    CASE kind = "Subject"     -> {"id", "name"}
      [] kind = "Contributor" -> {"id", "name"}
      [] kind = "Repository"  -> {"id", "name"}
      [] kind = "Coverage"    -> {"id", "name", "uri"}
      [] kind = "Collection"  -> {"id", "name", "slug"}
      [] kind = "Document"    -> {"id", "title"}
      [] kind = "Theme"       -> {"id", "slug"}

\* The class attribute `endpoint` of each kind.
Endpoint(kind) ==
    CASE kind = "Subject"     -> "subject"
      [] kind = "Contributor" -> "contributor"
      [] kind = "Repository"  -> "repository"
      [] kind = "Coverage"    -> "coverage"
      [] kind = "Collection"  -> "collection"
      [] kind = "Document"    -> "record"
      [] kind = "Theme"       -> "theme"

\* The keys a mapping handed to a constructor may hold: the fields, and one
\* key the dataclass does not declare.
DataKeys(kind) == Fields(kind) \cup {"extra"}

-----------------------------------------------------------------------------
(* Construction: the dataclass-generated __init__ and each __post_init__.  *)
(* A constructor result is [err, f]: the exception raised ("none" when     *)
(* none) and the field values the instance is left with.                   *)

\* Parsing one nested record, Kind(**mapping), and a list of them.
ParseRecord(x) == Entity(x.v)
ParseList(x) == ListOfEntity(x.v)

\* Coverage.__post_init__: a list-valued parent becomes None, a parent mapping
\* is parsed; children are parsed unless unhydrated or already parsed, which
\* is decided by looking at children[0].
Coverage__post_init__(f) ==
    LET p1 == IF f.parent.t \in {"list", "list_of_dict", "list_of_entity"}
              THEN None ELSE f.parent
        p2 == IF p1.t \in {"entity", "None", "UnhydratedField"}
              THEN p1 ELSE ParseRecord(p1)
        g  == [f EXCEPT !.parent = p2]
    IN  IF g.children = UnhydratedField THEN [err |-> "none", f |-> g]
        ELSE IF g.children = EmptyList THEN [err |-> "IndexError", f |-> g]
        ELSE IF g.children.t = "list_of_entity" THEN [err |-> "none", f |-> g]
        ELSE [err |-> "none", f |-> [g EXCEPT !.children = ParseList(g.children)]]

\* TimestampsMixin._process_timestamps: ISO strings become datetimes.
process_timestamps(f, fields) ==
    [k \in DOMAIN f |-> IF k \in fields /\ f[k].t = "str" THEN Datetime(f[k].v)
                        ELSE f[k]]

Collection__post_init__(f) ==
    [err |-> "none", f |-> process_timestamps(f, {"source_created_at"})]

\* Document._parse_child_records, one field: [err, val].
parse_child_field(x) ==
    IF x = UnhydratedField THEN [err |-> "none", val |-> x]
    ELSE IF x.t = "dict" THEN [err |-> "none", val |-> ParseRecord(x)]
    \* (the isinstance(..., Right) escape applies to no field kept here)
    ELSE IF x.t \in {"entity", "None"} THEN [err |-> "TypeError", val |-> x]  \* len() of it
    ELSE IF x = EmptyList THEN [err |-> "none", val |-> x]
    ELSE IF x.t = "list_of_dict" THEN [err |-> "none", val |-> ParseList(x)]
    ELSE [err |-> "none", val |-> x]

\* Document.__post_init__: the child fields in the order of child_fields
\* ("subjects" before "type"), then the timestamps, then date_range_start.
Document__post_init__(f) ==
    LET s == parse_child_field(f.subjects)
        g == [f EXCEPT !.subjects = s.val]
        t == parse_child_field(g.type)
        h == [g EXCEPT !.type = t.val]
    IN  IF s.err # "none" THEN [err |-> s.err, f |-> f]
        ELSE IF t.err # "none" THEN [err |-> t.err, f |-> g]
        ELSE [err |-> "none",
              f |-> [h EXCEPT !.date_range_start =
                        IF @.t = "str" THEN parse_date_range_start(@) ELSE @]]

\* Theme.__post_init__: every featured collection is kept if parsed, parsed if not.
Theme__post_init__(f) ==
    [err |-> "none",
     f |-> [f EXCEPT !.featured_collections =
                IF @.t = "list_of_dict" THEN ParseList(@) ELSE @]]

post_init(kind, f) ==
    CASE kind = "Coverage"   -> Coverage__post_init__(f)
      [] kind = "Collection" -> Collection__post_init__(f)
      [] kind = "Document"   -> Document__post_init__(f)
      [] kind = "Theme"      -> Theme__post_init__(f)
      [] OTHER               -> [err |-> "none", f |-> f]

\* self.__init__(**data) on an instance whose fields are f.  An undeclared
\* keyword or a missing required one raises TypeError before any field is
\* assigned; otherwise every field is assigned (its default, the sentinel,
\* where data has no such key) and __post_init__ runs.
dataclass_init(kind, f, data) ==
    IF \E k \in DOMAIN data : data[k] # Absent /\ k \notin Fields(kind)
    THEN [err |-> "TypeError", f |-> f]
    ELSE IF \E k \in Required(kind) : data[k] = Absent
    THEN [err |-> "TypeError", f |-> f]
    ELSE post_init(kind, [k \in Fields(kind) |->
                            IF data[k] # Absent THEN data[k] ELSE UnhydratedField])

\* The keyword arguments **vars(self).
AsData(kind, f) == [k \in DataKeys(kind) |-> IF k \in DOMAIN f THEN f[k] ELSE Absent]

-----------------------------------------------------------------------------
(* Equality and hashing (Resource.__eq__, Resource.__hash__).              *)

\* A variant of __eq__ that forgets the class test.
eq_ignoring_class(a, b) == IF a.f.id = b.f.id THEN "True" ELSE "False"

\* Resource.__eq__(a, b): "NotImplemented" when the classes differ.
Resource__eq__(a, b) ==
    IF a.kind # b.kind THEN "NotImplemented"
    ELSE IF a.f.id = b.f.id THEN "True" ELSE "False"

\* hash(self.id).  Python only promises that equal values hash alike; here
\* the string "1" and the int 1 collide.
Resource__hash__(a) == a.f.id.v

\* The expression a == b on two objects i, j of a heap: __eq__, then the
\* reflected __eq__, and when both answer NotImplemented, identity.
PyEq(heap, i, j) ==
    LET r1 == Resource__eq__(heap[i], heap[j])
        r2 == Resource__eq__(heap[j], heap[i])
    IN  IF r1 # "NotImplemented" THEN r1 = "True"
        ELSE IF r2 # "NotImplemented" THEN r2 = "True"
        ELSE i = j

\* set.add(x): x is dropped when a member with the same hash is x or equals x.
PySetAdd(heap, s, i) ==
    IF \E j \in s : /\ Resource__hash__(heap[j]) = Resource__hash__(heap[i])
                    /\ (j = i \/ PyEq(heap, j, i))
    THEN s ELSE s \cup {i}

-----------------------------------------------------------------------------
(* Hydration (HydrateMixin.pull, HydrateMixin.hydrate, Document.hydrate,   *)
(* Theme.pull).  A response is [status, data].                             *)

\* The resource id pull() asks for: Theme asks by slug, the others by id.
PullKey(kind, f) == IF kind = "Theme" THEN f.slug ELSE f.id

\* A variant of pull() that resets the instance to its stub before fetching.
pull_resetting_first(kind, f, resp) ==
    LET reset == [k \in DOMAIN f |-> IF k \in Required(kind) THEN f[k]
                                     ELSE UnhydratedField]
    IN  IF resp.status # 200 THEN [err |-> "fetch_error", f |-> reset]
        ELSE dataclass_init(kind, f, resp.data)

\* pull(): api.get raises on a non-200 status, before anything is assigned;
\* otherwise the instance is re-initialised from the response.
pull(kind, f, resp) ==
    IF resp.status # 200 THEN [err |-> "fetch_error", f |-> f]
    ELSE dataclass_init(kind, f, resp.data)

\* A variant of the merge loop biased to the values held before the pull.
merge_left_biased(unhydrated, hydrated) ==
    [k \in DOMAIN hydrated |->
        IF unhydrated[k] # UnhydratedField THEN unhydrated[k] ELSE hydrated[k]]

\* The merge loop of hydrate(): a field the pull left as the sentinel takes
\* back the value it had before.
merge_fields(unhydrated, hydrated) ==
    [k \in DOMAIN hydrated |->
        IF hydrated[k] = UnhydratedField THEN unhydrated[k] ELSE hydrated[k]]

\* hydrate() (the same code in HydrateMixin and Document, recurse = False):
\* [err, f, post] with post the field values right after the pull.
hydrate(kind, f, resp) ==
    LET pulled == pull(kind, f, resp)
        merged == merge_fields(f, pulled.f)
        reinit == dataclass_init(kind, merged, AsData(kind, merged))
    IN  IF pulled.err # "none"
        THEN [err |-> pulled.err, f |-> pulled.f, post |-> pulled.f]
        ELSE [err |-> reinit.err, f |-> reinit.f, post |-> pulled.f]

-----------------------------------------------------------------------------
(* The mappings a constructor or a by-ID response may hold.                *)

\* The stub of a record: its required fields only.
StubData(kind, id) ==
    [k \in DataKeys(kind) |-> IF k = "id" THEN id
                              ELSE IF k \in Required(kind) THEN Str(1) ELSE Absent]

\* The well-formed records of each kind the archive may send (search-result
\* stubs and full by-ID records alike): required fields present, each optional
\* field absent or present.
WellFormed(kind) ==
    CASE kind \in {"Subject", "Contributor", "Repository"} ->
            {[id |-> i, name |-> Str(1), value |-> v, uri |-> u, extra |-> Absent] :
                i \in StrIds, v \in {Str(1), Absent}, u \in {Str(1), Absent}}
      [] kind = "Coverage" ->
            {[id |-> i, name |-> Str(1), uri |-> Str(1), value |-> Absent,
              parent |-> p, children |-> c, extra |-> Absent] :
                i \in StrIds, p \in {Absent, EmptyList, Dict(1)},
                c \in {Absent, EmptyList, ListOfDict(1)}}
      [] kind = "Collection" ->
            {[id |-> i, name |-> n, slug |-> Str(1), source_created_at |-> t,
              extra |-> Absent] :
                i \in StrIds, n \in StrVals, t \in {Str(1), Absent}}
      [] kind = "Document" ->
            {[id |-> i, title |-> Str(1), source |-> s, type |-> t, subjects |-> j,
              date_range_start |-> Absent, extra |-> Absent] :
                i \in StrIds, s \in {Str(1), Absent}, t \in {Dict(1), Absent},
                j \in {Absent, EmptyList, ListOfDict(1)}}
            \cup {[StubData(kind, Str(1)) EXCEPT !.date_range_start = DateRangeBegin]}
      [] kind = "Theme" ->
            {[id |-> i, slug |-> Str(1), title |-> t, featured_collections |-> c,
              extra |-> Absent] :
                i \in StrIds, t \in {Str(1), Absent},
                c \in {Absent, EmptyList, ListOfDict(1)}}

\* Schema drift: a record that lacks a required field, and one with a key the
\* dataclass does not declare.
MissingRequired(kind, id) ==
    [k \in DataKeys(kind) |-> IF k = "id" THEN id ELSE Absent]
UndeclaredKey(kind, id) == [StubData(kind, id) EXCEPT !["extra"] = Str(1)]

RecordData(kind) ==
    WellFormed(kind) \cup {MissingRequired(kind, Str(1)), UndeclaredKey(kind, Str(1))}

\* What api.get may answer: a record with status 200, or a failure status.
Responses(kind) ==
    {[status |-> 200, data |-> d] : d \in RecordData(kind)}
    \cup {[status |-> 500, data |-> StubData(kind, Str(1))]}

NoFields == [k \in {} |-> Absent]

-----------------------------------------------------------------------------
(* SpecEq: entities are constructed, compared and collected in a set.      *)

EqKinds == {"Subject", "Contributor", "Document"}

\* A full record: every optional field populated.
FullData(kind, id) ==
    [k \in DataKeys(kind) |->
        IF k = "id" THEN id
        ELSE IF k = "extra" THEN Absent
        ELSE IF k \in {"subjects"} THEN ListOfDict(1)
        ELSE IF k = "type" THEN Dict(1)
        ELSE Str(1)]

\* Kind(**data): a stub or a full instance.
EqConstruct(kind, id, full) ==
    /\ Len(insts) < MaxInst
    /\ LET r == dataclass_init(kind, NoFields,
                               IF full THEN FullData(kind, id) ELSE StubData(kind, id))
       IN  /\ r.err = "none"
           /\ insts' = Append(insts, [kind |-> kind, f |-> r.f])
    /\ UNCHANGED <<pyset, offered>>

\* pyset.add(insts[i])
SetAdd(i) ==
    /\ i \in 1..Len(insts)
    /\ i \notin offered
    /\ pyset' = PySetAdd(insts, pyset, i)
    /\ offered' = offered \cup {i}
    /\ UNCHANGED insts

-----------------------------------------------------------------------------
(* SpecHydrate: one instance is constructed, then pulled and hydrated.     *)

HydrateKinds == {"Subject", "Coverage", "Collection", "Document", "Theme"}

\* Kind(**data), from a search-result stub or a full record.  A constructor
\* that raises leaves no instance.
Construct(kind, data) ==
    /\ inst.kind = "none"
    /\ LET r == dataclass_init(kind, NoFields, data)
       IN  /\ outcome' = r.err
           /\ inst' = IF r.err = "none" THEN [kind |-> kind, f |-> r.f] ELSE inst
    /\ lastop' = "construct"
    /\ UNCHANGED <<pre, post, status, lastget, net>>

\* api.get(endpoint=self.endpoint, resource_id=...)
GetRequest(kind, f) == [endpoint |-> Endpoint(kind), resource_id |-> PullKey(kind, f)]

\* inst.pull(), the transport answering resp.
Pull(resp) ==
    /\ inst.kind # "none"
    /\ LET r == pull(inst.kind, inst.f, resp)
       IN  /\ inst' = [inst EXCEPT !.f = r.f]
           /\ outcome' = IF r.err = "none" THEN "ok" ELSE r.err
           /\ post' = r.f
    /\ pre' = inst.f
    /\ status' = resp.status
    /\ lastop' = "pull"
    /\ lastget' = GetRequest(inst.kind, inst.f)
    /\ UNCHANGED net

\* inst.hydrate(), the transport answering resp.
Hydrate(resp) ==
    /\ inst.kind # "none"
    /\ LET r == hydrate(inst.kind, inst.f, resp)
       IN  /\ inst' = [inst EXCEPT !.f = r.f]
           /\ outcome' = IF r.err = "none" THEN "ok" ELSE r.err
           /\ post' = r.post
    /\ pre' = inst.f
    /\ status' = resp.status
    /\ lastop' = "hydrate"
    /\ lastget' = GetRequest(inst.kind, inst.f)
    /\ UNCHANGED net

-----------------------------------------------------------------------------
(* Matching: the filters of a match call and their transformation (the     *)
(* match classmethods of models.py, ResourceMatcher.__init__).             *)

\* A list of elems, and str(item.id) of a related entity with id n.
ListOf(elems) == [t |-> "seq", v |-> elems]
IdStr(n) == [t |-> "idstr", v |-> n]
\* " ".join(words): the one word itself when there is exactly one.
Join(words) ==
    IF Len(words) = 1 THEN words[1]
    ELSE [t |-> "joined", v |-> [i \in 1..Len(words) |-> words[i].v]]

\* The declared fields of each searchable kind: cls.__dataclass_fields__.keys().
DataclassFields(kind) ==
    CASE kind = "Subject"     -> {"id", "name", "value", "uri", "endpoint"}
      [] kind = "Contributor" -> {"id", "name", "value", "uri", "endpoint"}
      [] kind = "Repository"  -> {"id", "name", "uri", "value", "endpoint"}
      [] kind = "Coverage"    -> {"id", "name", "uri", "value", "parent", "children",
                                  "endpoint"}
      [] kind = "Collection"  -> {"id", "name", "slug", "uri", "parent", "model",
                                  "value", "description", "short_description",
                                  "main_src", "thumb_src", "no_of_documents",
                                  "is_inactive", "source_created_at",
                                  "source_updated_at", "first_published_at", "endpoint"}
      [] kind = "Document"    -> {"id", "uri", "title", "description", "doc_date",
                                  "frontend_doc_date", "slug", "source_created_at",
                                  "source_updated_at", "first_published_at", "source",
                                  "type", "rights", "pdf_generated_at",
                                  "date_range_start", "sort_string_by_coverage",
                                  "main_src", "model", "donors", "subjects",
                                  "transcripts", "translations", "media_files",
                                  "languages", "contributors", "creators",
                                  "original_coverages", "collections", "attachments",
                                  "links", "repositories", "publishers",
                                  "classifications", "endpoint"}

\* The kinds that have a match classmethod (MatchingMixin).
Matchable == {"Subject", "Contributor", "Repository", "Coverage", "Collection",
              "Document"}

\* The kinds ResourceMatcher.__init__ counts by the length of the returned list.
CountedByLength == {"Subject", "Repository", "Contributor", "Coverage"}

date_range_searches == {"start_date", "end_date"}

\* The filter keys the documentation of each kind allows: what Kind.match
\* itself validates against.
AllowedByMatch(kind) ==
    IF kind = "Document"
    THEN DataclassFields(kind) \cup date_range_searches \cup {"themes"}
    ELSE DataclassFields(kind)

\* allowed_search_fields of ResourceMatcher.__init__.
AllowedByMatcher(kind) ==
    IF kind = "Document"
    THEN DataclassFields(kind) \cup date_range_searches \cup {"themes"}
    ELSE DataclassFields(kind)

\* multi_terms: plural filter name -> singular wire name.
MultiPlural == {"collections", "publishers", "repositories", "original_coverages",
                "subjects", "contributors", "donors", "languages", "translations",
                "themes"}
multi_terms(key) ==
    CASE key = "collections"        -> "collection"
      [] key = "publishers"         -> "publisher"
      [] key = "repositories"       -> "repository"
      [] key = "original_coverages" -> "coverage"
      [] key = "subjects"           -> "subject"
      [] key = "contributors"       -> "contributor"
      [] key = "donors"             -> "donor"
      [] key = "languages"          -> "language"
      [] key = "translations"       -> "translation"
      [] key = "themes"             -> "theme"
MultiSingular == {multi_terms(k) : k \in MultiPlural}
SingleValued == {"language", "translation", "theme"}
\* The fields Document.match renames to field[].
Bracketed == {"donor", "subject", "contributor", "coverage", "collection"}

\* Every key a query may hold, before or after its transformation.
QueryKeys ==
    UNION {DataclassFields(k) : k \in Matchable} \cup date_range_searches
    \cup MultiPlural \cup MultiSingular \cup {f \o "[]" : f \in Bracketed}
    \cup {"bad_key", "term", "q", "itemsPerPage", "page"}

\* A query (keyword arguments, self.query): a value or Absent under every key.
Has(query, key) == query[key] # Absent
KeysOf(query) == {k \in QueryKeys : Has(query, k)}
NoQuery == [k \in QueryKeys |-> Absent]
\* A variant of Rename that copies and leaves the old key in place.
Rename_keeping_old(query, old, new) == [query EXCEPT ![new] = query[old]]
\* query[new] = query.pop(old)
Rename(query, old, new) == [query EXCEPT ![new] = query[old], ![old] = Absent]

\* date.today()
Today == Date(2026, 11, 3)

\* A variant of FormatDate writing the month without its leading zero.
FormatDate_month_unpadded(d) == Str(d.v[1] * 1000 + d.v[2] * 100 + d.v[3])
\* f"{d.year}{d.strftime('%m')}{d.strftime('%d')}": the year's digits as they
\* are, then two digits each for month and day.
FormatDate(d) == Str(d.v[1] * 10000 + d.v[2] * 100 + d.v[3])

\* The open end of a date range filled in, begin being the "begin" that
\* api.get_date_range() answers: [query, requested] with requested telling
\* whether api.get_date_range() was called.
FillOpenDates(query, begin) ==
    IF Has(query, "start_date") /\ ~Has(query, "end_date")
    THEN [query |-> [query EXCEPT !["end_date"] = Today],
          requested |-> FALSE]
    ELSE IF Has(query, "end_date") /\ ~Has(query, "start_date")
    THEN [query |-> [query EXCEPT !["start_date"] = parse_date_range_start(begin)],
          requested |-> TRUE]
    ELSE [query |-> query, requested |-> FALSE]

\* One date value checked and serialised: [err, val].
CheckDate(x) ==
    IF x.t = "date" THEN [err |-> "none", val |-> FormatDate(x)]
    ELSE IF x.t = "str" /\ StrLen(x) = 8 THEN [err |-> "none", val |-> x]
    ELSE [err |-> "MalformedDateSearch", val |-> x]

\* The loop over start_date and end_date that both versions of
\* _process_date_searches end with: [err, query].
FormatDates(query) ==
    LET s == CheckDate(query["start_date"])
        e == CheckDate(query["end_date"])
    IN  IF s.err # "none" THEN [err |-> s.err, query |-> query]
        ELSE IF e.err # "none"
        THEN [err |-> e.err, query |-> [query EXCEPT !["start_date"] = s.val]]
        ELSE [err |-> "none",
              query |-> [query EXCEPT !["start_date"] = s.val, !["end_date"] = e.val]]

\* The transport (api.get, api.search, api.get_date_range): the archive holds
\* srv.n records matching the query, and its failAt-th request of the session
\* fails with a server error (0: none fails).
Req(op, endpoint, params) == [op |-> op, endpoint |-> endpoint, params |-> params]
Fails(srv, log) == Len(log) + 1 = srv.failAt

\* Document._process_date_searches(query) (models.py): [err, query, net], net
\* being the request log after it.
Document_process_date_searches(query, srv, log) ==
    LET filled == FillOpenDates(query, srv.begin)
        log1   == IF filled.requested
                  THEN Append(log, Req("date_range", "date_range", NoQuery))
                  ELSE log
        done   == FormatDates(filled.query)
    IN  IF filled.requested /\ Fails(srv, log)
        THEN [err |-> "APIServerError", query |-> query, net |-> log1]
        ELSE [err |-> done.err, query |-> done.query, net |-> log1]

\* ResourceMatcher._process_date_searches(self) (matching.py): the same after
\* a test that the model is Document.
Matcher_process_date_searches(kind, query, srv, log) ==
    IF kind # "Document"
    THEN [err |-> "InvalidSearchFieldError", query |-> query, net |-> log]
    ELSE Document_process_date_searches(query, srv, log)

\* Elements of a relation filter: a Language, another resource with id n, or
\* something with no id attribute (a string, a number).
Language(code) == [t |-> "Language", v |-> code.v]
HasIdAttr(item) == item.t \in {"Language", "entity"}
\* str(item.id)
StrOfId(item) == IF item.t = "Language" THEN Str(item.v) ELSE IdStr(item.v)

\* Document._process_language_search(query): [err, query, none], none telling
\* that the function fell off its end and returned None.  The return sits
\* inside the loop: only the first element is looked at.
process_language_search(query) ==
    LET langs == query["languages"]
    IN  IF langs.t # "seq"
        THEN [err |-> IF langs.t = "str" THEN "MalformedLanguageSearch" ELSE "TypeError",
              query |-> query, none |-> FALSE]
        ELSE IF langs.v = <<>> THEN [err |-> "none", query |-> query, none |-> TRUE]
        ELSE LET first == langs.v[1]
             IN  IF first.t = "Language"
                 THEN [err |-> "none", none |-> FALSE,
                       query |-> [query EXCEPT !["languages"] = ListOf(<<first>>)]]
                 ELSE IF first.t = "str" /\ StrLen(first) = 3
                 THEN [err |-> "none", none |-> FALSE,
                       query |-> [query EXCEPT !["languages"] = ListOf(<<Language(first)>>)]]
                 ELSE [err |-> "MalformedLanguageSearch", query |-> query, none |-> FALSE]

\* _process_related_model_searches, the same code in models.py and matching.py.
PluralOf(term) == CHOOSE key \in MultiPlural : multi_terms(key) = term
SingularOrder == <<"collection", "publisher", "repository", "coverage", "subject",
                   "contributor", "donor", "language", "translation", "theme">>
SingleOrder == <<"language", "translation", "theme">>
\* query[value] = query.pop(key) for every plural key present.
RenameToSingular(query) ==
    [k \in QueryKeys |->
        IF k \in MultiPlural THEN Absent
        ELSE IF k \in MultiSingular /\ Has(query, PluralOf(k)) THEN query[PluralOf(k)]
        ELSE query[k]]
\* [str(item.id) for item in value]: the error it raises, and its result.
IdListErr(value) ==
    IF value.t = "str" THEN "AttributeError"
    ELSE IF value.t # "seq" THEN "TypeError"
    ELSE IF \E i \in 1..Len(value.v) : ~HasIdAttr(value.v[i]) THEN "AttributeError"
    ELSE "none"
IdList(value) == ListOf([i \in 1..Len(value.v) |-> StrOfId(value.v[i])])
\* The first error of a loop whose passes would raise errs, in that order.
FirstErr(errs) ==
    LET bad == {i \in 1..Len(errs) : errs[i] # "none"}
    IN  IF bad = {} THEN "none"
        ELSE errs[CHOOSE i \in bad : \A j \in bad : i <= j]
\* The loop over language, translation, theme, q2 holding lists of ids.
related_singletons(q2) ==
    LET ErrSingle(term) ==
            IF ~Has(q2, term) THEN "none"
            ELSE IF Len(q2[term].v) > 1 THEN "InvalidSearchFieldError"
            ELSE IF Len(q2[term].v) = 0 THEN "IndexError"
            ELSE "none"
        e3 == FirstErr([i \in 1..Len(SingleOrder) |-> ErrSingle(SingleOrder[i])])
    IN  IF e3 # "none" THEN [err |-> e3, query |-> q2]
        ELSE [err |-> "none",
              query |-> [k \in QueryKeys |->
                           IF k \in SingleValued /\ Has(q2, k) THEN q2[k].v[1]
                           ELSE q2[k]]]
\* The loop over terms_to_parse, q1 holding the renamed terms.
related_id_lists(q1) ==
    LET ErrIds(term) == IF Has(q1, term) THEN IdListErr(q1[term]) ELSE "none"
        e2 == FirstErr([i \in 1..Len(SingularOrder) |-> ErrIds(SingularOrder[i])])
    IN  IF e2 # "none" THEN [err |-> e2, query |-> q1]
        ELSE related_singletons([k \in QueryKeys |->
                                    IF k \in MultiSingular /\ Has(q1, k)
                                    THEN IdList(q1[k]) ELSE q1[k]])
process_related_model_searches(query) == related_id_lists(RenameToSingular(query))

-----------------------------------------------------------------------------
(* The archive's answers, the result generator, ResourceMatcher.__init__   *)
(* and the match classmethods.                                             *)

\* The default of items_per_page.
DefaultItemsPerPage == 200

\* The i-th record the archive finds, and the record fetched by its id.
Item(i) == [t |-> "item", v |-> i]
ById(id) == [t |-> "byid", v |-> id.v]

CeilDiv(a, b) == (a + b - 1) \div b
Min(a, b) == IF a < b THEN a ELSE b

\* The kinds whose endpoint answers with the whole list and no pagination key.
Unpaginated == {"Subject", "Repository", "Contributor", "Coverage"}

\* The answer to api.search(model=endpoint, params=query): the page asked for
\* (the first when no page is asked for) of srv.n records, with the pagination
\* block of the first and later pages agreeing.
SearchResponse(kind, query, srv) ==
    LET ipp  == query["itemsPerPage"].v
        page == IF Has(query, "page") THEN query["page"].v ELSE 1
        lo   == (page - 1) * ipp + 1
        hi   == Min(page * ipp, srv.n)
    IN  IF kind \in Unpaginated
        THEN [list |-> [i \in 1..srv.n |-> Item(i)], haspag |-> FALSE,
              page |-> 0, totalPages |-> 0, totalItems |-> 0]
        ELSE [list |-> [i \in 1..(IF hi >= lo THEN hi - lo + 1 ELSE 0) |-> Item(lo + i - 1)],
              haspag |-> TRUE, page |-> page,
              totalPages |-> CeilDiv(srv.n, ipp), totalItems |-> srv.n]

\* self.list: a generator expression over the first response's list, the
\* generator of _get_all_search_results, or either one finished.
GenExpr(items) ==
    [mode |-> "genexpr", buf |-> items, started |-> FALSE, haspag |-> FALSE,
     page |-> 0, totalPages |-> 0]
\* Variants of the paged generator: one trusting the first response for page
\* one and starting at the page after it, one serving the first response's
\* items before its loop.
Paged_from_next_page(response) ==
    [mode |-> "paged", buf |-> <<>>, started |-> FALSE, haspag |-> response.haspag,
     page |-> response.page + 1, totalPages |-> response.totalPages]
Paged_serving_first_response(response) ==
    [mode |-> "paged", buf |-> response.list, started |-> FALSE,
     haspag |-> response.haspag, page |-> response.page,
     totalPages |-> response.totalPages]
Paged(response) ==
    [mode |-> "paged", buf |-> <<>>, started |-> FALSE, haspag |-> response.haspag,
     page |-> response.page, totalPages |-> response.totalPages]
Finished ==
    [mode |-> "done", buf |-> <<>>, started |-> FALSE, haspag |-> FALSE,
     page |-> 0, totalPages |-> 0]
\* self.list after hydrate(): a list, no generator.
Materialized(items) ==
    [mode |-> "list", buf |-> items, started |-> FALSE, haspag |-> FALSE,
     page |-> 0, totalPages |-> 0]

\* One step of the generator, next(self.list): [kind, item, list, query, net]
\* with kind "item", "stop" (StopIteration) or the exception raised.
GenResult(kind, item, list, query, log) ==
    [kind |-> kind, item |-> item, list |-> list, query |-> query, net |-> log]

\* The while loop of _get_all_search_results entered at its test.
RECURSIVE PageLoop(_, _, _, _, _)
PageLoop(kind, list, query, srv, log) ==
    IF list.page > list.totalPages
    THEN GenResult("stop", Item(0), Finished, query, log)
    ELSE LET q1   == [query EXCEPT !["page"] = IntVal(list.page)]
             log1 == Append(log, Req("search", Endpoint(kind), q1))
             resp == SearchResponse(kind, q1, srv)
         IN  IF Fails(srv, log)
             THEN GenResult("APIServerError", Item(0), Finished, q1, log1)
             ELSE IF resp.list = <<>>
             THEN PageLoop(kind, [list EXCEPT !.page = @ + 1,
                                              !.totalPages = resp.totalPages],
                           q1, srv, log1)
             ELSE GenResult("item", Head(resp.list),
                            [list EXCEPT !.buf = Tail(resp.list),
                                         !.totalPages = resp.totalPages],
                            q1, log1)

GenNext(kind, list, query, srv, log) ==
    IF list.mode = "list" THEN GenResult("TypeError", Item(0), list, query, log)
    ELSE IF list.mode = "done" THEN GenResult("stop", Item(0), Finished, query, log)
    ELSE IF list.buf # <<>>
    THEN GenResult("item", Head(list.buf), [list EXCEPT !.buf = Tail(@)], query, log)
    ELSE IF list.mode = "genexpr" THEN GenResult("stop", Item(0), Finished, query, log)
    ELSE IF ~list.started
    THEN IF ~list.haspag THEN GenResult("KeyError", Item(0), Finished, query, log)
         ELSE PageLoop(kind, [list EXCEPT !.started = TRUE], query, srv, log)
    ELSE PageLoop(kind, [list EXCEPT !.page = @ + 1], query, srv, log)

\* list(self.list): [items, result, list, query, net], result "stop" when the
\* generator ran to its end and else the exception that broke it off.
RECURSIVE Drain(_, _, _, _, _, _)
Drain(kind, list, query, srv, log, acc) ==
    LET r == GenNext(kind, list, query, srv, log)
    IN  IF list.mode = "list"
        THEN [items |-> list.buf, result |-> "stop", list |-> list, query |-> query,
              net |-> log]
        ELSE IF r.kind = "item"
        THEN Drain(kind, r.list, r.query, srv, r.net, Append(acc, r.item))
        ELSE [items |-> acc, result |-> r.kind, list |-> r.list, query |-> r.query,
              net |-> r.net]

\* A variant of the flag ResourceMatcher.hydrate passes on that is always the default.
Passed_never(kind, recurse) == "default"

\* The recurse argument of the hydrate() call ResourceMatcher.hydrate makes
\* on an element: its own flag for a Document, none for the other kinds.
Passed(kind, recurse) ==
    IF kind = "Document" THEN (IF recurse THEN "True" ELSE "False") ELSE "default"

\* An element after its hydrate(recurse) returned.
HydratedElement(x, recurse) == [t |-> "hydrated", v |-> <<x, recurse>>]

\* The for loop of ResourceMatcher.hydrate from element j on: [items, result,
\* net], each hydrate() being one by-ID fetch.
RECURSIVE HydrateEach(_, _, _, _, _, _)
HydrateEach(kind, items, j, recurse, srv, log) ==
    IF j > Len(items) THEN [items |-> items, result |-> "ok", net |-> log]
    ELSE IF Fails(srv, log)
    THEN [items |-> items, result |-> "APIServerError",
          net |-> Append(log, Req("pull", Endpoint(kind), items[j]))]
    ELSE HydrateEach(kind,
                     [items EXCEPT ![j] = HydratedElement(@, Passed(kind, recurse))],
                     j + 1, recurse, srv,
                     Append(log, Req("pull", Endpoint(kind), items[j])))

\* ResourceMatcher.hydrate(recurse): [items, result, list, query, net].  When
\* list(self.list) raises, self.list stays the (finished) generator.
HydrateDrained(kind, d, h) ==
    IF d.result # "stop" THEN d
    ELSE [items |-> h.items, result |-> h.result, list |-> Materialized(h.items),
          query |-> d.query, net |-> h.net]
ResourceMatcher_hydrate(kind, d, recurse, srv) ==
    HydrateDrained(kind, d, HydrateEach(kind, d.items, 1, recurse, srv, d.net))

\* A matcher: what ResourceMatcher.__init__ leaves, or the exception it raised.
Matcher(raised, kind, query, count, list, log) ==
    [raised |-> raised, kind |-> kind, query |-> query, count |-> count,
     list |-> list, net |-> log]
Raise(exc, kind, query, log) == Matcher(exc, kind, query, 0, Finished, log)

\* bool(x) of a value a mapping's get() gave (None when the key is missing).
Truthy(x) ==
    /\ x.t \notin {"absent", "None"}
    /\ ~(x.t = "int" /\ x.v = 0)
    /\ ~(x.t = "seq" /\ x.v = <<>>)

\* The part of __init__ from "if self.query.get('id')" on.
FetchFirst(kind, ipp, query, srv, log) ==
    IF Truthy(query["id"])
    THEN LET log1 == Append(log, Req("get", Endpoint(kind), query))
         IN  IF Fails(srv, log) THEN Raise("APIServerError", kind, query, log1)
             ELSE Matcher("none", kind, query, 1, GenExpr(<<ById(query["id"])>>), log1)
    ELSE LET q1    == [query EXCEPT !["itemsPerPage"] = IntVal(ipp)]
             log1  == Append(log, Req("search", Endpoint(kind), q1))
             resp  == SearchResponse(kind, q1, srv)
             count == IF kind \in CountedByLength THEN Len(resp.list)
                      ELSE resp.totalItems
         IN  IF Fails(srv, log) THEN Raise("APIServerError", kind, q1, log1)
             ELSE IF kind \notin CountedByLength /\ ~resp.haspag
             THEN Raise("KeyError", kind, q1, log1)
             ELSE IF count <= ipp
             THEN Matcher("none", kind, q1, count, GenExpr(resp.list), log1)
             ELSE IF kind = "Subject"
             THEN Matcher("none", kind, q1, count, GenExpr(resp.list), log1)
             ELSE Matcher("none", kind, q1, count, Paged(resp), log1)

\* ResourceMatcher(resource_model, items_per_page, **kwargs)
ResourceMatcher__init__(kind, ipp, kwargs, srv, log) ==
    LET dated == IF \E f \in date_range_searches : Has(kwargs, f)
                 THEN Matcher_process_date_searches(kind, kwargs, srv, log)
                 ELSE [err |-> "none", query |-> kwargs, net |-> log]
        rel   == process_related_model_searches(dated.query)
    IN  IF dated.err # "none" THEN Raise(dated.err, kind, dated.query, dated.net)
        ELSE IF \E key \in KeysOf(dated.query) : key \notin AllowedByMatcher(kind)
        THEN Raise("InvalidSearchFieldError", kind, dated.query, dated.net)
        ELSE IF rel.err # "none" THEN Raise(rel.err, kind, rel.query, dated.net)
        ELSE FetchFirst(kind, ipp, rel.query, srv, dated.net)

\* What a match classmethod does to its keyword arguments before it calls
\* ResourceMatcher with them: [err, query, net].
Prepared(err, query, log) == [err |-> err, query |-> query, net |-> log]

\* MatchingMixin.match(cls, **kwargs) up to its return statement.
MatchingMixin_prepare(kind, kwargs, log) ==
    LET termed ==
            IF Truthy(kwargs["name"]) /\ Truthy(kwargs["value"])
            THEN [kwargs EXCEPT !["term"] = Join(<<kwargs["name"], kwargs["value"]>>),
                                !["name"] = Absent, !["value"] = Absent]
            ELSE IF Truthy(kwargs["name"]) THEN Rename(kwargs, "name", "term")
            ELSE IF Truthy(kwargs["value"]) THEN Rename(kwargs, "value", "term")
            ELSE kwargs
    IN  IF \E key \in KeysOf(kwargs) : key \notin DataclassFields(kind)
        THEN Prepared("InvalidSearchFieldError", kwargs, log)
        ELSE Prepared("none", termed, log)

\* A literal string of the code.
Lit(text) == [t |-> "lit", v |-> text]
\* A variant of KeywordOrder: the same fields, last first.
KeywordOrder_reversed == <<"q", "slug", "description", "title", "name">>
KeywordOrder == <<"name", "title", "description", "slug", "q">>

\* Document.match(cls, **kwargs) up to its return statement, step by step:
\* each step takes what the step before it left.
\* kwargs[f"{field}[]"] = kwargs.pop(field) for the fields of Bracketed.
Document_brackets(query) ==
    [k \in QueryKeys |->
        IF k \in Bracketed THEN Absent
        ELSE IF \E f \in Bracketed : k = f \o "[]" /\ Has(query, f)
        THEN query[CHOOSE f \in Bracketed : k = f \o "[]"]
        ELSE query[k]]
\* The keywords popped in the order of KeywordOrder and joined into "q".
Document_keywords(query) ==
    LET Given(field) == Has(query, field) /\ query[field] # None
        words == SelectSeq(KeywordOrder, Given)
    IN  [k \in QueryKeys |->
            IF k = "q" THEN Join([i \in 1..Len(words) |-> query[words[i]]])
            ELSE IF k \in {"name", "title", "description", "slug"} /\ Given(k)
            THEN Absent
            ELSE query[k]]
Document_after_related(rel, log) ==
    IF rel.err # "none" THEN Prepared(rel.err, rel.query, log)
    ELSE Prepared("none", Document_brackets(Document_keywords(rel.query)), log)
Document_after_languages(lang, log) ==
    IF lang.err # "none" THEN Prepared(lang.err, lang.query, log)
    ELSE IF lang.none THEN Prepared("AttributeError", lang.query, log)
    ELSE Document_after_related(
             IF \E key \in MultiPlural : Has(lang.query, key)
             THEN process_related_model_searches(lang.query)
             ELSE [err |-> "none", query |-> lang.query], log)
Document_after_dates(dated) ==
    IF dated.err # "none" THEN dated
    ELSE Document_after_languages(
             IF Has(dated.query, "languages")
             THEN process_language_search(dated.query)
             ELSE [err |-> "none", query |-> dated.query, none |-> FALSE], dated.net)
Document_after_model(k0, srv, log) ==
    IF \E key \in KeysOf(k0) : key \notin AllowedByMatch("Document")
    THEN Prepared("InvalidSearchFieldError", k0, log)
    ELSE Document_after_dates(
             IF \E f \in date_range_searches : Has(k0, f)
             THEN Document_process_date_searches(k0, srv, log)
             ELSE Prepared("none", k0, log))
Document_prepare(kwargs, srv, log) ==
    Document_after_model([kwargs EXCEPT !["model"] = Lit("Record")], srv, log)

\* The match classmethod of kind up to its return statement.
Kind_prepare(kind, kwargs, srv, log) ==
    IF kind = "Document" THEN Document_prepare(kwargs, srv, log)
    ELSE MatchingMixin_prepare(kind, kwargs, log)

\* "return matching.ResourceMatcher(cls, **kwargs)" with the keyword
\* arguments p prepared, unless preparing them raised.
ReturnMatcher(kind, p, srv) ==
    IF p.err # "none" THEN Raise(p.err, kind, p.query, p.net)
    ELSE ResourceMatcher__init__(kind, DefaultItemsPerPage, p.query, srv, p.net)

\* MatchingMixin.match(cls, **kwargs)
MatchingMixin_match(kind, kwargs, srv, log) ==
    ReturnMatcher(kind, MatchingMixin_prepare(kind, kwargs, log), srv)

\* Document.match(cls, **kwargs)
Document_match(kwargs, srv, log) ==
    ReturnMatcher("Document", Document_prepare(kwargs, srv, log), srv)

\* Kind.match(**kwargs)
Kind_match(kind, kwargs, srv, log) ==
    IF kind = "Document" THEN Document_match(kwargs, srv, log)
    ELSE MatchingMixin_match(kind, kwargs, srv, log)

\* The keyword arguments ResourceMatcher was called with, if it was called.
Handed(called, query) == [called |-> called, query |-> query]
NoHanded == Handed(FALSE, NoQuery)
HandedOf(p) == IF p.err # "none" THEN NoHanded ELSE Handed(TRUE, p.query)
HandedBy(kind, kwargs, srv, log) == HandedOf(Kind_prepare(kind, kwargs, srv, log))

-----------------------------------------------------------------------------
(* SpecMatch: one match call, by Kind.match or by constructing the         *)
(* matcher, against an archive of up to MaxItems matching records, then    *)
(* list(resultset.all()).                                                  *)

MaxItems == 3       \* records the archive finds for a query: 0..MaxItems
MaxPageSize == 2    \* items_per_page given to the constructor: 1..MaxPageSize
MaxKeys == 2        \* filters given to one match call: at most MaxKeys
MaxFailAt == 2      \* the request that fails: none, or one of the first MaxFailAt
MaxOps == 2         \* accesses (first(), all()) to one result set

\* The filters a caller gives, and the values tried under each.
FilterKeys == {"id", "name", "title", "start_date", "end_date", "languages",
               "collections", "bad_key"}
\* A date, a YYYYMMDD string, a string of four characters, a number.
DateValues == {Date(1989, 4, 15), Date(989, 4, 15), Str(19890414), Str(1990), IntVal(1)}
\* An ISO 639-2/B code: three characters.
LanguageCode == Str(639)
FilterValues(key) ==
    CASE key = "id"          -> {Str(1), IntVal(0)}
      [] key = "name"        -> {Str(1)}
      [] key = "title"       -> {Str(2)}
      [] key = "start_date"  -> DateValues
      [] key = "end_date"    -> DateValues
      [] key = "languages"   -> {ListOf(<<LanguageCode>>), ListOf(<<Language(LanguageCode)>>),
                                 ListOf(<<IntVal(1)>>),
                                 ListOf(<<LanguageCode, IntVal(1)>>),
                                 ListOf(<<>>)}
      [] key = "collections" -> {ListOf(<<Entity(1)>>), ListOf(<<Entity(1), Entity(2)>>)}
      [] key = "bad_key"     -> {Str(1)}
AllFilterValues == UNION {FilterValues(key) : key \in FilterKeys}
Kwargs(given) == [k \in QueryKeys |-> IF k \in DOMAIN given THEN given[k] ELSE Absent]
FilterSets ==
    UNION {{Kwargs(given) : given \in {g \in [keys -> AllFilterValues] :
                                          \A k \in keys : g[k] \in FilterValues(k)}} :
           keys \in {ks \in SUBSET FilterKeys : Cardinality(ks) <= MaxKeys}}
Servers == [n : 0..MaxItems, failAt : 0..MaxFailAt, begin : {DateRangeBegin}]
PageSizes == 1..MaxPageSize

NoCall == [entry |-> "none", kind |-> "none", kwargs |-> NoQuery, ipp |-> 0]
NoMatcher == [raised |-> "none", kind |-> "none", query |-> NoQuery, count |-> 0,
              list |-> Finished]
NoDrain == [items |-> <<>>, result |-> "none"]

\* The call returned or raised: the matcher of r is the program's, its
\* requests are on the wire.
Called(entry, kind, kwargs, ipp, srv, h, r) ==
    /\ call' = [entry |-> entry, kind |-> kind, kwargs |-> kwargs, ipp |-> ipp]
    /\ server' = srv
    /\ matcher' = [raised |-> r.raised, kind |-> r.kind, query |-> r.query,
                   count |-> r.count, list |-> r.list]
    /\ net' = r.net
    /\ handed' = h
    /\ phase' = IF r.raised = "none" THEN "matched" ELSE "raised"
    /\ UNCHANGED <<drained, ops>>

\* resultset = Kind.match(**kwargs)
Match(kind, kwargs, srv) ==
    Called("match", kind, kwargs, DefaultItemsPerPage, srv,
           HandedBy(kind, kwargs, srv, net), Kind_match(kind, kwargs, srv, net))

\* resultset = ResourceMatcher(Kind, items_per_page=ipp, **kwargs)
NewMatcher(kind, ipp, kwargs, srv) ==
    Called("matcher", kind, kwargs, ipp, srv,
           Handed(TRUE, kwargs), ResourceMatcher__init__(kind, ipp, kwargs, srv, net))

\* One access to the result set: what it was, how it ended ("item", "stop"
\* or the exception), the entities it gave and the requests it issued.
Access(op, result, items, sent) ==
    [op |-> op, result |-> result, items |-> items, sent |-> sent]
Accessible ==
    phase \in {"matched", "advanced", "drained", "hydrated"} /\ Len(ops) < MaxOps

\* list(resultset.all())
All ==
    /\ Accessible
    /\ LET d == Drain(matcher.kind, matcher.list, matcher.query, server, net, <<>>)
       IN  /\ drained' = [items |-> d.items, result |-> d.result]
           /\ matcher' = [matcher EXCEPT !.list = d.list, !.query = d.query]
           /\ net' = d.net
           /\ ops' = Append(ops, Access("all", d.result, d.items, Len(d.net) - Len(net)))
    /\ phase' = "drained"
    /\ UNCHANGED <<call, server, handed>>

\* resultset.first()
First ==
    /\ Accessible
    /\ LET r == GenNext(matcher.kind, matcher.list, matcher.query, server, net)
       IN  /\ matcher' = [matcher EXCEPT !.list = r.list, !.query = r.query]
           /\ net' = r.net
           /\ ops' = Append(ops, Access("first",
                                       IF r.kind = "stop" THEN "StopIteration" ELSE r.kind,
                                       IF r.kind = "item" THEN <<r.item>> ELSE <<>>,
                                       Len(r.net) - Len(net)))
    /\ phase' = "advanced"
    /\ UNCHANGED <<call, server, drained, handed>>

\* resultset.hydrate(recurse)
HydrateAll(recurse) ==
    /\ Accessible
    /\ LET r == ResourceMatcher_hydrate(
                    matcher.kind,
                    Drain(matcher.kind, matcher.list, matcher.query, server, net, <<>>),
                    recurse, server)
       IN  /\ matcher' = [matcher EXCEPT !.list = r.list, !.query = r.query]
           /\ net' = r.net
           /\ ops' = Append(ops, Access(IF recurse THEN "hydrate_recurse" ELSE "hydrate",
                                       r.result, r.items, Len(r.net) - Len(net)))
    /\ phase' = "hydrated"
    /\ UNCHANGED <<call, server, drained, handed>>

-----------------------------------------------------------------------------
(* Assets (Asset, Transcript, Translation, MediaFile) and the recursive    *)
(* hydration of a Document with its attached records (Document.hydrate).   *)

MaxKids == 2        \* transcripts a record carries, at most (one of each other relation)
MaxCalls == 1       \* hydrate() calls made on the attached records directly

\* response.content, and response.text: the content decoded to a string.
Bytes(n) == [t |-> "bytes", v |-> n]
Text(content) == [t |-> "text", v |-> content.v]
\* A file extension.
Ext(name) == [t |-> "ext", v |-> name]
Extensions == {Ext("html"), Ext("pdf"), Ext("jpg")}

\* The attributes an asset may carry; Absent: the instance has no such attribute.
AssetAttrs == {"id", "url", "path", "language", "extension", "html", "pdf", "raw"}
\* The fields each asset class declares with the sentinel as default.
AssetDefaults(kind) == IF kind = "MediaFile" THEN {"raw", "pdf"} ELSE {"html", "pdf", "raw"}

\* Kind(**data) of an asset class: the generated __init__ and the class's
\* __post_init__ (Transcript: nothing; Translation: the language mapping is
\* parsed; MediaFile: url is taken from path).
Asset_init(kind, data) ==
    [k \in AssetAttrs |->
        IF k = "url" /\ kind = "MediaFile" THEN data["path"]
        ELSE IF k = "language" /\ kind = "Translation" THEN ParseRecord(data[k])
        ELSE IF data[k] # Absent THEN data[k]
        ELSE IF k \in AssetDefaults(kind) THEN UnhydratedField
        ELSE Absent]

\* A variant of Asset.hydrate that stores the content before it looks at the status.
Asset_hydrate_storing_first(f, response) ==
    IF response.status_code # 200
    THEN [err |-> "APIServerError", f |-> [f EXCEPT !["raw"] = response.content]]
    ELSE [err |-> "none", f |-> [f EXCEPT !["raw"] = response.content]]

\* A variant of Asset.hydrate that leaves the other format's field alone.
Asset_hydrate_not_clearing(f, response) ==
    IF response.status_code # 200 THEN [err |-> "APIServerError", f |-> f]
    ELSE [err |-> "none",
          f |-> IF f["extension"] = Ext("html")
                THEN [f EXCEPT !["raw"] = response.content,
                               !["html"] = Text(response.content)]
                ELSE IF f["extension"] = Ext("pdf")
                THEN [f EXCEPT !["raw"] = response.content,
                               !["pdf"] = response.content]
                ELSE [f EXCEPT !["raw"] = response.content]]

\* Asset.hydrate(): [err, f], the response being that of SESSION.get(url).
Asset_hydrate(f, response) ==
    IF response.status_code # 200 THEN [err |-> "APIServerError", f |-> f]
    ELSE [err |-> "none",
          f |-> IF f["extension"] = Ext("html")
                THEN [f EXCEPT !["raw"] = response.content,
                               !["html"] = Text(response.content),
                               !["pdf"] = None]
                ELSE IF f["extension"] = Ext("pdf")
                THEN [f EXCEPT !["raw"] = response.content,
                               !["pdf"] = response.content,
                               !["html"] = None]
                ELSE [f EXCEPT !["raw"] = response.content]]

\* The relations Document.hydrate recurses into, in the order it does.
ChildFields == <<"transcripts", "translations", "media_files", "collections">>
ChildKind(field) ==
    CASE field = "transcripts"  -> "Transcript"
      [] field = "translations" -> "Translation"
      [] field = "media_files"  -> "MediaFile"
      [] field = "collections"  -> "Collection"

\* A raw list of JSON objects, and a list of parsed instances.  An instance
\* is [kind, f, n]: n counts the hydrate() calls made on it by the
\* Document.hydrate under way.
Dicts(list) == [t |-> "dicts", v |-> list]
Children(list) == [t |-> "children", v |-> list]
Child(kind, data) ==
    [kind |-> kind,
     f |-> IF kind = "Collection" THEN dataclass_init(kind, NoFields, data).f
           ELSE Asset_init(kind, data),
     n |-> 0]

\* Document._parse_child_records on the attached relations: a list of
\* mappings is parsed, the sentinel and a list of instances are kept.
parse_child_records(kids) ==
    [field \in DOMAIN kids |->
        IF kids[field].t = "dicts"
        THEN Children([i \in 1..Len(kids[field].v) |->
                          Child(ChildKind(field), kids[field].v[i])])
        ELSE kids[field]]

\* The relations of Document(**data): the sentinel where data has no such key.
Document_kids(data) ==
    parse_child_records([field \in DOMAIN data |->
                            IF data[field] = Absent THEN UnhydratedField ELSE data[field]])

\* A Document with its attached records: own holds the fields of the
\* Document, kids its relations.
NoKids == [i \in {} |-> Absent]
NoTree == [exists |-> FALSE, own |-> NoFields, kids |-> NoKids]

\* The hydrate() calls the four comprehensions of Document.hydrate make, in
\* order, from relation j on: <<field, i>> is the i-th record of field.
\* Iterating a relation that is still the sentinel raises TypeError.
RECURSIVE ChildOrder(_, _)
ChildOrder(kids, j) ==
    IF j > Len(ChildFields) THEN <<>>
    ELSE IF kids[ChildFields[j]] = UnhydratedField THEN << <<"TypeError", 0>> >>
    ELSE [i \in 1..Len(kids[ChildFields[j]].v) |-> <<ChildFields[j], i>>]
            \o ChildOrder(kids, j + 1)

\* A variant of the recursion that stops after the first attached record.
Continue_stopping_early(order, at) ==
    IF at > 1 \/ at > Len(order) THEN "returned"
    ELSE IF order[at][1] = "TypeError" THEN "TypeError"
    ELSE "children"

\* Where Document.hydrate stands when the calls before position at are done:
\* at the next call, at its return, or at the TypeError of an iteration.
Continue(order, at) ==
    IF at > Len(order) THEN "returned"
    ELSE IF order[at][1] = "TypeError" THEN "TypeError"
    ELSE "children"

\* The position of a Document.hydrate call, [pc, recurse, at, err, saved,
\* calls, hydrated]: pc is "idle" when no such call is the last call made,
\* err the exception the last call raised, saved the copy of the fields taken
\* before the pull, calls the number of hydrate() calls made on attached
\* records directly, hydrated whether doc.hydrate() was called.
Walk(pc, recurse, at, err, saved, calls, hydrated) ==
    [pc |-> pc, recurse |-> recurse, at |-> at, err |-> err, saved |-> saved,
     calls |-> calls, hydrated |-> hydrated]
NoWalk == Walk("idle", FALSE, 0, "none", NoTree, 0, FALSE)
Callable == tree.exists /\ walk.pc \in {"idle", "returned", "raised"}

\* What the archive and the content server may answer.
AssetData(kind, i, e, pdf) ==
    [k \in AssetAttrs |->
        CASE k = "id" -> Str(i)
          [] k = "extension" -> e
          [] k = "url" /\ kind # "MediaFile" -> Str(i)
          [] k = "path" /\ kind = "MediaFile" -> Str(i)
          [] k = "language" /\ kind = "Translation" -> Dict(1)
          [] k = "pdf" -> pdf
          [] OTHER -> Absent]
ChildData(field, i, e, pdf) ==
    IF field = "collections" THEN StubData("Collection", Str(i))
    ELSE AssetData(ChildKind(field), i, e, pdf)
\* The relations of a record: each one missing, or a list of lens[field]
\* records with extension e.
KidsData(lens, e, pdf) ==
    [field \in DOMAIN lens |->
        IF lens[field] < 0 THEN Absent
        ELSE Dicts([i \in 1..lens[field] |-> ChildData(field, i, e, pdf)])]
\* What a by-ID response holds, and what a caller constructs a Document with:
\* the stub of a search result, or every relation with records.
Shapes ==
    [transcripts : 0..MaxKids, translations : -1..1, media_files : 0..1,
     collections : -1..1]
GivenShapes ==
    {[transcripts |-> n, translations |-> m, media_files |-> m, collections |-> m] :
        n \in {-1} \cup 1..MaxKids, m \in {-1, 1}}
AssetResponses == [status_code : {200, 404}, content : {Bytes(1), Bytes(2)}]
DocumentResponses ==
    {[status |-> 200, data |-> d] :
        d \in {StubData("Document", Str(1)), MissingRequired("Document", Str(1)),
               [StubData("Document", Str(1)) EXCEPT !.source = Str(1)]}}
    \cup {[status |-> 500, data |-> StubData("Document", Str(1))]}

\* doc = Document(**data), the relations of data being lists of lens[field]
\* records (none where negative), their assets of extension e and with or
\* without a pdf at hand.
TreeConstruct(lens, e, pdf) ==
    /\ ~tree.exists
    /\ tree' = [exists |-> TRUE,
                own |-> dataclass_init("Document", NoFields,
                                       StubData("Document", Str(1))).f,
                kids |-> Document_kids(KidsData(lens, e, pdf))]
    /\ UNCHANGED <<walk, net>>

\* The record at <<field, i>> after its hydrate() gave r.
Hydrated(t, field, i, r) ==
    [t EXCEPT !.kids[field].v[i].f = r.f, !.kids[field].v[i].n = @ + 1]

\* doc.<field>[i].hydrate() called directly on an attached asset.
AssetHydrate(field, i, response) ==
    /\ Callable
    /\ walk.calls < MaxCalls
    /\ field # "collections"
    /\ tree.kids[field] # UnhydratedField
    /\ i \in 1..Len(tree.kids[field].v)
    /\ LET r == Asset_hydrate(tree.kids[field].v[i].f, response)
       IN  /\ tree' = [tree EXCEPT !.kids[field].v[i].f = r.f]
           /\ walk' = [walk EXCEPT !.pc = "idle", !.err = r.err, !.calls = @ + 1]
    /\ net' = Append(net, Req("content", "asset", tree.kids[field].v[i].f["url"]))

\* doc.hydrate(recurse) up to the return of self.pull(): the by-ID fetch and
\* self.__init__(**data).
DocumentPull(recurse, resp, lens) ==
    /\ Callable
    /\ ~walk.hydrated
    /\ net' = Append(net, Req("get", Endpoint("Document"), tree.own["id"]))
    /\ LET r == pull("Document", tree.own, resp)
           zeroed == [tree EXCEPT !.kids = [field \in DOMAIN @ |->
                                               IF @[field] = UnhydratedField THEN @[field]
                                               ELSE Children([i \in 1..Len(@[field].v) |->
                                                       [@[field].v[i] EXCEPT !.n = 0]])]]
       IN  IF r.err # "none"
           THEN /\ tree' = zeroed
                /\ walk' = Walk("raised", recurse, 0, r.err, NoTree, walk.calls, TRUE)
           ELSE /\ tree' = [exists |-> TRUE, own |-> r.f,
                            kids |-> Document_kids(KidsData(lens, Ext("html"), Absent))]
                /\ walk' = Walk("pulled", recurse, 0, "none", zeroed, walk.calls, TRUE)

\* doc.hydrate(recurse) from the merge loop to the first attached record's
\* hydrate(): the fields the pull left as the sentinel are put back, the
\* instance is re-initialised.
DocumentMerge ==
    /\ walk.pc = "pulled"
    /\ LET own  == merge_fields(walk.saved.own, tree.own)
           kids == parse_child_records(merge_fields(walk.saved.kids, tree.kids))
           to   == IF walk.recurse THEN Continue(ChildOrder(kids, 1), 1) ELSE "returned"
       IN  /\ tree' = [exists |-> TRUE,
                       own |-> dataclass_init("Document", own, AsData("Document", own)).f,
                       kids |-> kids]
           /\ walk' = [walk EXCEPT !.pc = IF to = "TypeError" THEN "raised" ELSE to,
                                   !.err = IF to = "TypeError" THEN to ELSE "none",
                                   !.at = 1, !.saved = NoTree]
    /\ UNCHANGED net

\* The next hydrate() of the comprehensions of Document.hydrate, on an asset:
\* the content request answered by response.
HydrateChildAsset(response) ==
    /\ walk.pc = "children"
    /\ LET order == ChildOrder(tree.kids, 1)
           field == order[walk.at][1]
           i     == order[walk.at][2]
           r     == Asset_hydrate(tree.kids[field].v[i].f, response)
           to    == IF r.err # "none" THEN r.err ELSE Continue(order, walk.at + 1)
       IN  /\ field # "collections"
           /\ tree' = Hydrated(tree, field, i, r)
           /\ net' = Append(net, Req("content", "asset", tree.kids[field].v[i].f["url"]))
           /\ walk' = [walk EXCEPT !.pc = IF to \in {"children", "returned"} THEN to
                                          ELSE "raised",
                                   !.err = IF to \in {"children", "returned"} THEN "none"
                                           ELSE to,
                                   !.at = @ + 1]

\* The next hydrate() of the comprehensions, on a Collection: the by-ID fetch
\* answered by resp.
HydrateChildCollection(resp) ==
    /\ walk.pc = "children"
    /\ LET order == ChildOrder(tree.kids, 1)
           field == order[walk.at][1]
           i     == order[walk.at][2]
           r     == hydrate("Collection", tree.kids[field].v[i].f, resp)
           to    == IF r.err # "none" THEN r.err ELSE Continue(order, walk.at + 1)
       IN  /\ field = "collections"
           /\ tree' = Hydrated(tree, field, i, r)
           /\ net' = Append(net, Req("get", Endpoint("Collection"),
                                     tree.kids[field].v[i].f["id"]))
           /\ walk' = [walk EXCEPT !.pc = IF to \in {"children", "returned"} THEN to
                                          ELSE "raised",
                                   !.err = IF to \in {"children", "returned"} THEN "none"
                                           ELSE to,
                                   !.at = @ + 1]

-----------------------------------------------------------------------------
(* The asynchronous Hydrator (hydrator.py): rehydrate() gathers one         *)
(* hydrate_record task per entry of records; the tasks interleave at their *)
(* awaits.                                                                 *)

MaxRecords == 2     \* record dicts (instances) there are
MaxTasks == 3       \* entries of the list given to Hydrator, at most
MaxConcurrent == 2  \* max_concurrent_requests ranges over 1..MaxConcurrent
MaxTimeouts == 1    \* timeouts a task's fetch meets, at most

\* Hydrator(records, max_concurrent_requests) under rehydrate(): records
\* names the instance each entry of the list is.
Gather(running, records, max) ==
    [running |-> running, records |-> records, max_concurrent_requests |-> max]
NoGather == Gather(FALSE, <<>>, 0)

\* A task: where it stands, and the timeouts its fetch has met.
Task(pc, timeouts) == [pc |-> pc, timeouts |-> timeouts]

\* The lists a caller may give: every entry one of the record dicts, the same
\* dict possibly more than once.
RecordLists ==
    UNION {[1..n -> 1..MaxRecords] : n \in 1..MaxTasks}

\* hydrator.rehydrate() up to the gather: the semaphore is created, one
\* hydrate_record coroutine per entry of records.  rehydrate() is called once.
hydrate_records(records, max) ==
    /\ ~gathered.running
    /\ taskpc = <<>>
    /\ gathered' = Gather(TRUE, records, max)
    /\ semaphore' = max
    /\ taskpc' = [i \in 1..Len(records) |-> Task("start", 0)]
    /\ UNCHANGED <<dicts, net>>

\* Task i enters "async with semaphore" and fetch() issues its request.
hydrate_record_enter(i) ==
    /\ taskpc[i].pc = "start"
    /\ semaphore > 0
    /\ semaphore' = semaphore - 1
    /\ taskpc' = [taskpc EXCEPT ![i].pc = "fetching"]
    /\ net' = Append(net, Req("get", "record", gathered.records[i]))
    /\ UNCHANGED <<gathered, dicts>>

\* The request of task i times out: fetch() logs, sleeps and calls itself,
\* which issues the request again.
fetch_timeout(i) ==
    /\ taskpc[i].pc = "fetching"
    /\ taskpc[i].timeouts < MaxTimeouts
    /\ taskpc' = [taskpc EXCEPT ![i].timeouts = @ + 1]
    /\ net' = Append(net, Req("get", "record", gathered.records[i]))
    /\ UNCHANGED <<gathered, semaphore, dicts>>

\* The response of task i arrives: record.update(...), the task returns and
\* leaves the semaphore.
hydrate_record_return(i) ==
    /\ taskpc[i].pc = "fetching"
    /\ dicts' = [dicts EXCEPT ![gathered.records[i]] = "full"]
    /\ semaphore' = semaphore + 1
    /\ taskpc' = [taskpc EXCEPT ![i].pc = "done"]
    /\ UNCHANGED <<gathered, net>>

\* Every task has returned: gather returns, the session is closed.
hydrate_records_return ==
    /\ gathered.running
    /\ \A i \in 1..Len(taskpc) : taskpc[i].pc = "done"
    /\ gathered' = [gathered EXCEPT !.running = FALSE]
    /\ UNCHANGED <<taskpc, semaphore, dicts, net>>

-----------------------------------------------------------------------------
(* The specifications.                                                     *)

vars == <<insts, pyset, offered, inst, pre, post, lastop, outcome, status,
          lastget, net, call, server, matcher, drained, phase, ops, handed,
         tree, walk, gathered, taskpc, semaphore, dicts>>

\* The state before anything is constructed or requested.
Init ==
    /\ insts = <<>>
    /\ pyset = {}
    /\ offered = {}
    /\ inst = [kind |-> "none", f |-> NoFields]
    /\ pre = NoFields
    /\ post = NoFields
    /\ lastop = "none"
    /\ outcome = "none"
    /\ status = 0
    /\ lastget = [endpoint |-> "none", resource_id |-> None]
    /\ net = <<>>
    /\ call = NoCall
    /\ server = [n |-> 0, failAt |-> 0, begin |-> DateRangeBegin]
    /\ handed = NoHanded
    /\ matcher = NoMatcher
    /\ drained = NoDrain
    /\ phase = "idle"
    /\ ops = <<>>
    /\ tree = NoTree
    /\ walk = NoWalk
    /\ gathered = NoGather
    /\ taskpc = <<>>
    /\ semaphore = 0
    /\ dicts = [r \in 1..MaxRecords |-> "stub"]

NextEq ==
    \/ \E kind \in EqKinds, id \in IdVals, full \in BOOLEAN :
          EqConstruct(kind, id, full) /\ UNCHANGED <<hydvars, matchvars, treevars, asyncvars, net>>
    \/ \E i \in 1..MaxInst : SetAdd(i) /\ UNCHANGED <<hydvars, matchvars, treevars, asyncvars, net>>

SpecEq == Init /\ [][NextEq]_vars

NextHydrate ==
    \/ \E kind \in HydrateKinds : \E data \in RecordData(kind) :
          Construct(kind, data) /\ UNCHANGED <<eqvars, matchvars, treevars, asyncvars>>
    \/ /\ inst.kind # "none"
       /\ \E resp \in Responses(inst.kind) : Pull(resp) /\ UNCHANGED <<eqvars, matchvars, treevars, asyncvars>>
    \/ /\ inst.kind # "none"
       /\ \E resp \in Responses(inst.kind) : Hydrate(resp) /\ UNCHANGED <<eqvars, matchvars, treevars, asyncvars>>

SpecHydrate == Init /\ [][NextHydrate]_vars

NextMatch ==
    \/ /\ phase = "idle"
       /\ \E kind \in Matchable, kwargs \in FilterSets, srv \in Servers :
             Match(kind, kwargs, srv) /\ UNCHANGED <<eqvars, hydvars, treevars, asyncvars>>
    \/ /\ phase = "idle"
       /\ \E kind \in Matchable, ipp \in PageSizes, kwargs \in FilterSets, srv \in Servers :
             NewMatcher(kind, ipp, kwargs, srv) /\ UNCHANGED <<eqvars, hydvars, treevars, asyncvars>>
    \/ All /\ UNCHANGED <<eqvars, hydvars, treevars, asyncvars>>
    \/ First /\ UNCHANGED <<eqvars, hydvars, treevars, asyncvars>>
    \/ /\ Accessible
       /\ \E recurse \in BOOLEAN : HydrateAll(recurse) /\ UNCHANGED <<eqvars, hydvars, treevars, asyncvars>>

SpecMatch == Init /\ [][NextMatch]_vars

NextTree ==
    \/ /\ ~tree.exists
       /\ \E lens \in GivenShapes, e \in Extensions, pdf \in {Absent, Bytes(3)} :
             TreeConstruct(lens, e, pdf) /\ UNCHANGED <<eqvars, hydvars, matchvars, asyncvars>>
    \/ /\ Callable
       /\ \E j \in 1..Len(ChildFields), i \in 1..MaxKids, response \in AssetResponses :
             AssetHydrate(ChildFields[j], i, response)
             /\ UNCHANGED <<eqvars, hydvars, matchvars, asyncvars>>
    \/ /\ Callable
       /\ ~walk.hydrated
       /\ \E recurse \in BOOLEAN, resp \in DocumentResponses, lens \in Shapes :
             DocumentPull(recurse, resp, lens) /\ UNCHANGED <<eqvars, hydvars, matchvars, asyncvars>>
    \/ DocumentMerge /\ UNCHANGED <<eqvars, hydvars, matchvars, asyncvars>>
    \/ /\ walk.pc = "children"
       /\ \E response \in AssetResponses :
             HydrateChildAsset(response) /\ UNCHANGED <<eqvars, hydvars, matchvars, asyncvars>>
    \/ /\ walk.pc = "children"
       /\ \E resp \in Responses("Collection") :
             HydrateChildCollection(resp) /\ UNCHANGED <<eqvars, hydvars, matchvars, asyncvars>>

SpecTree == Init /\ [][NextTree]_vars

NextAsync ==
    \/ /\ ~gathered.running
       /\ \E records \in RecordLists, max \in 1..MaxConcurrent :
             hydrate_records(records, max)
             /\ UNCHANGED <<eqvars, hydvars, matchvars, treevars>>
    \/ \E i \in 1..Len(taskpc) :
          hydrate_record_enter(i) /\ UNCHANGED <<eqvars, hydvars, matchvars, treevars>>
    \/ \E i \in 1..Len(taskpc) :
          fetch_timeout(i) /\ UNCHANGED <<eqvars, hydvars, matchvars, treevars>>
    \/ \E i \in 1..Len(taskpc) :
          hydrate_record_return(i) /\ UNCHANGED <<eqvars, hydvars, matchvars, treevars>>
    \/ hydrate_records_return /\ UNCHANGED <<eqvars, hydvars, matchvars, treevars>>

SpecAsync == Init /\ [][NextAsync]_vars

-----------------------------------------------------------------------------
(* SpecQuery: one match call with up to MaxQueryKeys free-text filters and *)
(* at most one date or relation filter, observed at the point where the    *)
(* match classmethod calls ResourceMatcher, and at the requests that       *)
(* follow.                                                                 *)

MaxQueryKeys == 3   \* free-text filters given to one call of SpecQuery
MaxBegin == 2       \* answers of the date-range endpoint the archive may give

TextKeys == {"name", "value", "title", "description", "slug", "q"}
OtherKeys == date_range_searches \cup MultiPlural
\* A second language code, and the "begin" dates the archive may answer.
OtherLanguageCode == Str(640)
Begins == <<DateRangeBegin, Str(17001231), Str(20000229)>>
TextValue(key) ==
    CASE key = "name"        -> Str(1)
      [] key = "value"       -> Str(2)
      [] key = "title"       -> Str(3)
      [] key = "description" -> Str(4)
      [] key = "slug"        -> Str(5)
      [] key = "q"           -> Str(6)
OtherValues(key) ==
    IF key \in date_range_searches THEN {Date(1989, 4, 15), Str(19900101)}
    ELSE IF key = "languages"
    THEN {ListOf(<<LanguageCode>>), ListOf(<<Language(LanguageCode)>>),
          ListOf(<<LanguageCode, IntVal(1)>>),
          ListOf(<<LanguageCode, Language(OtherLanguageCode)>>)}
    ELSE {ListOf(<<Entity(1)>>), ListOf(<<Entity(2), Entity(1)>>)}
\* The keyword arguments giving the free-text filters of texts and value
\* under key; key "none" gives only the free-text filters.
QueryKwargs(texts, key, value) ==
    [k \in QueryKeys |-> IF k = key THEN value
                         ELSE IF k \in texts THEN TextValue(k)
                         ELSE Absent]
TextKeySets == {ks \in SUBSET TextKeys : Cardinality(ks) <= MaxQueryKeys}
QueryFilterSets ==
    {QueryKwargs(texts, "none", Absent) : texts \in TextKeySets}
    \cup UNION {{QueryKwargs(texts, key, value) : texts \in TextKeySets,
                                                  value \in OtherValues(key)} :
               key \in OtherKeys}
QueryServers == [n : {1}, failAt : {0, 1}, begin : {Begins[i] : i \in 1..MaxBegin}]

NextQuery ==
    \/ /\ phase = "idle"
       /\ \E kind \in Matchable, kwargs \in QueryFilterSets, srv \in QueryServers :
             Match(kind, kwargs, srv) /\ UNCHANGED <<eqvars, hydvars, treevars, asyncvars>>
    \/ /\ phase = "idle"
       /\ \E kwargs \in QueryFilterSets, srv \in QueryServers :
             NewMatcher("Document", DefaultItemsPerPage, kwargs, srv)
             /\ UNCHANGED <<eqvars, hydvars, treevars, asyncvars>>

SpecQuery == Init /\ [][NextQuery]_vars

-----------------------------------------------------------------------------
(* Properties of equality and hashing (SpecEq).                            *)

SameKindAndId(a, b) == a.kind = b.kind /\ a.f.id = b.f.id

\* C1: a == b holds exactly when a and b have the same concrete kind and the
\* same id, whatever their other fields hold; equal instances hash alike; a
\* set holds at most one member per (kind, id), and every instance offered to
\* it is represented by a member of its kind and id.
C1_EqualityByKindAndId ==
    /\ \A i, j \in 1..Len(insts) :
          /\ PyEq(insts, i, j) <=> SameKindAndId(insts[i], insts[j])
          /\ PyEq(insts, i, j) =>
                Resource__hash__(insts[i]) = Resource__hash__(insts[j])
    /\ \A i, j \in pyset : SameKindAndId(insts[i], insts[j]) => i = j
    /\ \A i \in offered : \E j \in pyset : SameKindAndId(insts[i], insts[j])

\* A stub and a populated instance of one kind and id were both offered to the
\* set, which kept one of them.
C1_Witness ==
    \E i, j \in offered :
        /\ i # j
        /\ SameKindAndId(insts[i], insts[j])
        /\ insts[i].f # insts[j].f
        /\ i \in pyset /\ j \notin pyset

-----------------------------------------------------------------------------
(* Properties of hydration (SpecHydrate).                                  *)

\* C2: after a successful hydrate(), every field holds the freshly fetched
\* and parsed value unless that is the sentinel, and then the value it held
\* before the call.
C2_MergeLaw ==
    (lastop = "hydrate" /\ outcome = "ok") =>
        \A k \in Fields(inst.kind) :
            inst.f[k] = IF post[k] # UnhydratedField THEN post[k] ELSE pre[k]

\* A successful hydrate() that restored one field, filled another and
\* overwrote a third with a different value.
C2_Witness ==
    /\ lastop = "hydrate" /\ outcome = "ok"
    /\ \E k \in Fields(inst.kind) : post[k] = UnhydratedField /\ pre[k] # UnhydratedField
    /\ \E k \in Fields(inst.kind) : pre[k] = UnhydratedField /\ post[k] # UnhydratedField
    /\ \E k \in Fields(inst.kind) :
          /\ pre[k] # UnhydratedField /\ post[k] # UnhydratedField
          /\ pre[k] # post[k]

\* C3: when the by-ID fetch of pull() or hydrate() fails, the call raises and
\* every field keeps the value it had before the call.
C3_FailedFetchChangesNothing ==
    (lastop \in {"pull", "hydrate"} /\ status # 200) =>
        /\ outcome = "fetch_error"
        /\ inst.f = pre

\* A hydrate() whose fetch failed, on an instance with a populated optional field.
C3_Witness ==
    /\ lastop = "hydrate" /\ status = 500
    /\ \E k \in Fields(inst.kind) \ Required(inst.kind) : pre[k] # UnhydratedField

\* C4: no pull() or hydrate() changes the id of the instance.
C4_IdNeverChanges ==
    [][inst.kind # "none" => inst'.f.id = inst.f.id]_vars

-----------------------------------------------------------------------------
(* Result sets and validation (SpecMatch).                                 *)

\* The result set was drained by its first access.
FreshlyDrained == phase = "drained" /\ Len(ops) = 1

\* A search (no id filter) that finds more records than one page holds.
MultiPageSearch == ~Has(call.kwargs, "id") /\ server.n > call.ipp

\* The items of pages p..last of the archive's answer to query, page after
\* page, each page in the order the archive lists it.
RECURSIVE PagesInOrder(_, _, _, _, _)
PagesInOrder(kind, query, srv, p, last) ==
    IF p > last THEN <<>>
    ELSE SearchResponse(kind, [query EXCEPT !["page"] = IntVal(p)], srv).list
         \o PagesInOrder(kind, query, srv, p + 1, last)
AllPages ==
    PagesInOrder(matcher.kind, matcher.query, server, 1,
                 CeilDiv(server.n, call.ipp))
IsPrefix(a, b) == Len(a) <= Len(b) /\ SubSeq(b, 1, Len(a)) = a

\* C5: for every completed multi-page search (more items than the page size),
\* the number of entities list(resultset.all()) gives equals resultset.count.
C5_DrainedLengthIsCount ==
    (FreshlyDrained /\ drained.result = "stop" /\ MultiPageSearch)
        => Len(drained.items) = matcher.count

\* A paginated kind, three records, one per page, drained to the end.
C5_Witness ==
    /\ phase = "drained" /\ drained.result = "stop"
    /\ matcher.kind = "Collection" /\ server.n = MaxItems /\ call.ipp = 1
    /\ Len(drained.items) = MaxItems /\ matcher.count = MaxItems

\* C6: draining all() of a multi-page result set gives the items of page 1,
\* then page 2, ... to the last page, in the order of each page, every item
\* once; a drain a failed request broke off has given a prefix of them.
C6_DrainedInPageOrder ==
    (FreshlyDrained /\ MultiPageSearch /\ matcher.kind \notin Unpaginated)
        => /\ IsPrefix(drained.items, AllPages)
           /\ drained.result = "stop" => drained.items = AllPages
           /\ \A i, j \in 1..Len(drained.items) :
                  drained.items[i] = drained.items[j] => i = j

\* Three records on two pages, drained to the end in order.
C6_Witness ==
    /\ phase = "drained" /\ drained.result = "stop"
    /\ matcher.kind = "Document" /\ server.n = 3 /\ call.ipp = 2
    /\ drained.items = <<Item(1), Item(2), Item(3)>>
    /\ Len(net) = 3

\* C7: for Subject, Repository, Contributor and Coverage, whatever the length
\* n of the response list and the page size, the count is n and draining
\* all() succeeds with exactly those n entities in list order.
C7_SinglePageKinds ==
    ((phase = "matched" \/ FreshlyDrained) /\ matcher.kind \in Unpaginated
     /\ ~Has(call.kwargs, "id") /\ server.failAt = 0)
        => /\ matcher.count = server.n
           /\ phase = "drained" =>
                 /\ drained.result = "stop"
                 /\ drained.items = [i \in 1..server.n |-> Item(i)]

\* C8: a match with a filter key outside the kind's allowed set raises the
\* invalid-search-field error with no request issued before it.
C8_InvalidKeyBeforeNetwork ==
    (phase # "idle" /\ \E key \in KeysOf(call.kwargs) : key \notin AllowedByMatch(call.kind))
        => matcher.raised = "InvalidSearchFieldError" /\ net = <<>>

MalformedDate(x) == ~(x.t = "date" \/ (x.t = "str" /\ StrLen(x) = 8))
MalformedLanguages(x) ==
    x.t = "seq" /\ \E i \in 1..Len(x.v) :
        ~(x.v[i].t = "Language" \/ (x.v[i].t = "str" /\ StrLen(x.v[i]) = 3))
GivenMalformedDate(kwargs) ==
    \E f \in date_range_searches : Has(kwargs, f) /\ MalformedDate(kwargs[f])
GivenMalformedLanguage(kwargs) ==
    Has(kwargs, "languages") /\ MalformedLanguages(kwargs["languages"])

\* C9: Document.match with allowed keys and a malformed date value or a
\* malformed language element raises the malformed-date or malformed-language
\* error with no request issued before it, the date-range request included.
C9_MalformedValueBeforeNetwork ==
    (phase # "idle" /\ call.entry = "match" /\ call.kind = "Document"
     /\ KeysOf(call.kwargs) \subseteq AllowedByMatch("Document")
     /\ (GivenMalformedDate(call.kwargs) \/ GivenMalformedLanguage(call.kwargs)))
        => /\ net = <<>>
           /\ \/ matcher.raised = "MalformedDateSearch" /\ GivenMalformedDate(call.kwargs)
              \/ matcher.raised = "MalformedLanguageSearch"
                 /\ GivenMalformedLanguage(call.kwargs)

\* Filters a well-formed call gives: no malformed date or language, one
\* element in every single-valued relation.
WellFormedFilters(kwargs) ==
    /\ ~GivenMalformedDate(kwargs)
    /\ ~GivenMalformedLanguage(kwargs)
    /\ \A key \in MultiPlural :
          Has(kwargs, key) =>
              /\ kwargs[key].t = "seq" /\ kwargs[key].v # <<>>
              /\ multi_terms(key) \in SingleValued => Len(kwargs[key].v) = 1
SearchRequests(log) == {i \in 1..Len(log) : log[i].op = "search"}

\* C10: Kind.match with allowed keys only and no id filter does not raise the
\* invalid-search-field error, issues exactly one search request and returns
\* a result set.
C10_AllowedFiltersAccepted ==
    (phase # "idle" /\ call.entry = "match"
     /\ KeysOf(call.kwargs) \subseteq AllowedByMatch(call.kind)
     /\ ~Has(call.kwargs, "id") /\ WellFormedFilters(call.kwargs))
        => /\ matcher.raised # "InvalidSearchFieldError"
           /\ server.failAt = 0 =>
                 /\ matcher.raised = "none"
                 /\ phase = "matched" => Cardinality(SearchRequests(net)) = 1

\* C11: after first() on a freshly matched, non-empty result set (no request
\* failing) the caller holds the first element of the first page, and from
\* the start of match to the return of first() at most one search request
\* has been issued, whether the results fill one page or several.
C11_FirstFetchesOnePage ==
    (phase = "advanced" /\ Len(ops) = 1 /\ server.failAt = 0
     /\ matcher.kind \notin Unpaginated
     /\ ~Has(call.kwargs, "id") /\ server.n >= 1)
        => /\ ops[1].result = "item"
           /\ ops[1].items = <<Item(1)>>
           /\ Cardinality(SearchRequests(net)) <= 1

\* C12: list(resultset.all()) a second time gives the same entities in the
\* same order as the first time, all count of them, and issues no request.
C12_AllIsRepeatable ==
    (phase = "drained" /\ Len(ops) = 2 /\ server.failAt = 0
     /\ ops[1].op = "all" /\ ops[1].result = "stop" /\ ops[2].op = "all")
        => /\ ops[2].result = "stop"
           /\ ops[2].items = ops[1].items
           /\ Len(ops[2].items) = matcher.count
           /\ ops[2].sent = 0

\* The by-ID fetches of the log.
GetRequests(log) == {i \in 1..Len(log) : log[i].op = "get"}

\* C13: ResourceMatcher(kind, id=x) with nothing else filtered and no request
\* failing issues no search request and exactly one by-ID fetch, for the
\* kind's endpoint and x, has count 1 and yields exactly one entity, for
\* every id value x.
C13_IdFilterFetchesById ==
    (phase \in {"matched", "drained"} /\ Len(ops) <= 1 /\ call.entry = "matcher"
     /\ KeysOf(call.kwargs) = {"id"} /\ server.failAt = 0)
        => /\ SearchRequests(net) = {}
           /\ Cardinality(GetRequests(net)) = 1
           /\ \A i \in GetRequests(net) :
                 /\ net[i].endpoint = Endpoint(call.kind)
                 /\ net[i].params["id"] = call.kwargs["id"]
           /\ matcher.count = 1
           /\ FreshlyDrained => Len(drained.items) = 1

\* Document.match was called with filters among keys, and no request fails.
DocumentMatchWith(keys) ==
    /\ phase # "idle" /\ call.entry = "match" /\ call.kind = "Document"
    /\ KeysOf(call.kwargs) # {} /\ KeysOf(call.kwargs) \subseteq keys
    /\ server.failAt = 0
\* A key of a query that may not be among its keys at all.
Carries(query, key) == key \in DOMAIN query /\ query[key] # Absent
\* str(item.id) of every element of a list of related entities, in order.
IdsOf(list) == ListOf([i \in 1..Len(list.v) |-> IdStr(list.v[i].v)])

\* C14: Document.match(collections=[c1, ..., cn]) transmits a search request
\* whose query maps collection[] to the list of the stringified ids in the
\* given order and holds neither the key collections nor the entity objects.
C14_CollectionsTransmitted ==
    DocumentMatchWith({"collections"})
        => \E i \in SearchRequests(net) :
              /\ net[i].params["collection[]"] = IdsOf(call.kwargs["collections"])
              /\ ~Has(net[i].params, "collections")
              /\ \A k \in DOMAIN net[i].params :
                    net[i].params[k] # call.kwargs["collections"]

\* The multi-valued relation filters of Document.match.
MultiValued == MultiPlural \ {"languages", "translations", "themes"}

\* C15: the query Document.match passes on for transmission names every
\* multi-valued relation filter given (collections, publishers, repositories,
\* original_coverages, subjects, contributors, donors) by its singular wire
\* name with the [] suffix, never by the bare singular or the plural name.
C15_MultiValuedBracketed ==
    \A key \in MultiValued :
        (call.entry = "match" /\ call.kind = "Document" /\ handed.called
         /\ Has(call.kwargs, key))
            => /\ Carries(handed.query, multi_terms(key) \o "[]")
               /\ ~Carries(handed.query, multi_terms(key))
               /\ ~Carries(handed.query, key)

\* C16: for languages, translations and themes given to Document.match, a
\* list of one element is transmitted in a search request as that element's
\* id, unwrapped, under language, translation, theme; a list of more than one
\* element makes the match raise the invalid-search-field error with no
\* request issued.
C16_SingleValuedUnwrapped ==
    \A key \in {"languages", "translations", "themes"} :
        (DocumentMatchWith({key}) /\ ~GivenMalformedLanguage(call.kwargs))
            => LET elems == call.kwargs[key].v
               IN  /\ Len(elems) = 1 =>
                         \E i \in SearchRequests(net) :
                             net[i].params[multi_terms(key)] = StrOfId(elems[1])
                   /\ Len(elems) > 1 =>
                         matcher.raised = "InvalidSearchFieldError" /\ net = <<>>

\* An element of a languages list that is neither a Language nor a string of
\* three characters.
BadLanguage(x) == ~(x.t = "Language" \/ (x.t = "str" /\ StrLen(x) = 3))

\* C17: Document.match given a languages list with an element, at any
\* position, that is neither a Language nor a 3-letter string raises the
\* malformed-language-search error; given a list without such an element,
\* the normalized list has the length of the list given.
C17_EveryLanguageExamined ==
    (phase # "idle" /\ call.entry = "match" /\ call.kind = "Document"
     /\ KeysOf(call.kwargs) = {"languages"})
        => LET given == call.kwargs["languages"].v
               norm  == process_language_search(call.kwargs)
           IN  IF \E i \in 1..Len(given) : BadLanguage(given[i])
               THEN matcher.raised = "MalformedLanguageSearch"
               ELSE norm.err = "none" /\ ~norm.none
                    /\ Len(norm.query["languages"].v) = Len(given)

\* A date or a YYYYMMDD string as the YYYYMMDD string of a four-digit year.
YYYYMMDD(x) == IF x.t = "str" THEN x ELSE Str(x.v[1] * 10000 + x.v[2] * 100 + x.v[3])
\* The query of a Document date search once its dates are processed: what
\* Document.match passes to the matcher, or what a matcher constructed with
\* the dates keeps as its query.
DateSearchQuery == IF call.entry = "match" THEN handed.query ELSE matcher.query
OneDateGiven ==
    /\ phase # "idle" /\ call.kind = "Document"
    /\ Has(call.kwargs, "start_date") # Has(call.kwargs, "end_date")
    /\ IF call.entry = "match" THEN handed.called ELSE matcher.raised = "none"

Word(field) == IF Has(call.kwargs, field) THEN <<call.kwargs[field].v>> ELSE <<>>
\* words joined by spaces.
Spaced(words) ==
    IF Len(words) = 1 THEN Str(words[1]) ELSE [t |-> "joined", v |-> words]

-----------------------------------------------------------------------------
(* Properties of construction and of repeated hydration (SpecHydrate).     *)

\* The list-valued relation fields an instance of the model carries.
ListFields == {"subjects", "children", "featured_collections"}

\* C21: Kind(**data) with a list-valued relation field given as the empty
\* list raises nothing, stores the empty list in that field, and leaves every
\* optional field data does not give as the sentinel.
C21_EmptyListStored ==
    [][\A kind \in HydrateKinds : \A data \in WellFormed(kind) :
          (/\ Construct(kind, data)
           /\ \E k \in Fields(kind) \cap ListFields : data[k] = EmptyList)
              => /\ outcome' = "none"
                 /\ inst'.kind = kind
                 /\ \A k \in Fields(kind) :
                       /\ (k \in ListFields /\ data[k] = EmptyList)
                             => inst'.f[k] = EmptyList
                       /\ data[k] = Absent => inst'.f[k] = UnhydratedField]_vars

\* C28: no hydrate(), whatever the response holds and whether it returns or
\* raises, leaves the sentinel in a field that held another value before it.
C28_PopulatedFieldsNeverShrink ==
    [][lastop' = "hydrate" =>
          \A k \in Fields(inst.kind) :
              inst.f[k] # UnhydratedField => inst'.f[k] # UnhydratedField]_vars

-----------------------------------------------------------------------------
(* Properties of asset hydration and of recursive hydration (SpecTree).    *)

\* The step is a hydrate() of the asset doc.<field>[i] answered by response,
\* called directly or by the recursion of Document.hydrate.
HydratesAsset(field, i, response) ==
    \/ AssetHydrate(field, i, response)
    \/ /\ walk.pc = "children"
       /\ ChildOrder(tree.kids, 1)[walk.at] = <<field, i>>
       /\ HydrateChildAsset(response)

\* The attached records of a Document, as <<field, i>>.
Attached(t) ==
    {c \in {ChildFields[j] : j \in 1..Len(ChildFields)} \X (1..MaxKids) :
        /\ t.exists
        /\ t.kids[c[1]] # UnhydratedField
        /\ c[2] <= Len(t.kids[c[1]].v)}

\* C22: an asset hydrate() whose content request succeeds stores the response
\* bytes in raw; with extension html it stores the decoded text in html and
\* clears pdf, with extension pdf it stores the bytes in pdf and clears html,
\* with any other extension it leaves html and pdf as they were; called
\* directly it raises nothing.
C22_AssetHydratedByExtension ==
    [][\A j \in 1..3 : \A i \in 1..MaxKids : \A response \in AssetResponses :
          (HydratesAsset(ChildFields[j], i, response) /\ response.status_code = 200)
             => /\ tree'.kids[ChildFields[j]].v[i].f["raw"] = response.content
                /\ AssetHydrate(ChildFields[j], i, response) => walk'.err = "none"
                /\ tree.kids[ChildFields[j]].v[i].f["extension"] = Ext("html")
                      => /\ tree'.kids[ChildFields[j]].v[i].f["html"] = Text(response.content)
                         /\ tree'.kids[ChildFields[j]].v[i].f["pdf"] = None
                /\ tree.kids[ChildFields[j]].v[i].f["extension"] = Ext("pdf")
                      => /\ tree'.kids[ChildFields[j]].v[i].f["pdf"] = response.content
                         /\ tree'.kids[ChildFields[j]].v[i].f["html"] = None
                /\ tree.kids[ChildFields[j]].v[i].f["extension"] \notin {Ext("html"), Ext("pdf")}
                      => /\ tree'.kids[ChildFields[j]].v[i].f["html"]
                               = tree.kids[ChildFields[j]].v[i].f["html"]
                         /\ tree'.kids[ChildFields[j]].v[i].f["pdf"]
                               = tree.kids[ChildFields[j]].v[i].f["pdf"]]_vars

\* A transcript given with a pdf was hydrated from an html response: raw and
\* html hold the content, the pdf is cleared.
C22_Witness ==
    /\ tree.exists
    /\ walk.calls = 1
    /\ walk.err = "none"
    /\ tree.kids["transcripts"] # UnhydratedField
    /\ \E i \in 1..Len(tree.kids["transcripts"].v) :
          /\ tree.kids["transcripts"].v[i].f["extension"] = Ext("html")
          /\ tree.kids["transcripts"].v[i].f["raw"] = Bytes(2)
          /\ tree.kids["transcripts"].v[i].f["html"] = Text(Bytes(2))
          /\ tree.kids["transcripts"].v[i].f["pdf"] = None

\* C23: an asset hydrate() whose content request is answered with a
\* non-success status raises the server error and leaves every field of the
\* asset as it was.
C23_FailedAssetFetchChangesNothing ==
    [][\A j \in 1..3 : \A i \in 1..MaxKids : \A response \in AssetResponses :
          (HydratesAsset(ChildFields[j], i, response)
           /\ response.status_code \notin 200..299)
             => /\ walk'.err = "APIServerError"
                /\ tree'.kids[ChildFields[j]].v[i].f = tree.kids[ChildFields[j]].v[i].f
                /\ AssetHydrate(ChildFields[j], i, response) => tree' = tree]_vars

\* A media file given with a pdf was hydrated directly, the request failed,
\* and the media file is as constructed.
C23_Witness ==
    /\ tree.exists
    /\ walk.calls = 1
    /\ walk.pc = "idle"
    /\ walk.err = "APIServerError"
    /\ tree.kids["media_files"] # UnhydratedField
    /\ \E i \in 1..Len(tree.kids["media_files"].v) :
          /\ tree.kids["media_files"].v[i].f["pdf"] = Bytes(3)
          /\ tree.kids["media_files"].v[i].f["raw"] = UnhydratedField

-----------------------------------------------------------------------------
(* Properties of result-set hydration (SpecMatch).                         *)

\* The by-ID fetches of element hydrations in a request log.
Pulls(log) == {i \in 1..Len(log) : log[i].op = "pull"}
HydrateOps == {"hydrate", "hydrate_recurse"}

C26_OneRequestPerPage ==
    (FreshlyDrained /\ drained.result = "stop" /\ MultiPageSearch
     /\ matcher.kind \notin Unpaginated /\ server.failAt = 0)
        => /\ Cardinality(SearchRequests(net)) = CeilDiv(server.n, call.ipp)
           /\ Len(net) = CeilDiv(server.n, call.ipp)
           /\ ~Has(net[1].params, "page")
           /\ \A k \in 2..Len(net) :
                 /\ k <= CeilDiv(server.n, call.ipp)
                       => net[k].params = [net[1].params EXCEPT !["page"] = IntVal(k)]
                 /\ net[k].params["page"] # IntVal(1)

\* C27: a datetime.date given as start_date or end_date is sent as a string
\* of exactly eight characters, whatever its year.
C27_DateSerializedToEightChars ==
    \A field \in date_range_searches :
        (phase # "idle" /\ matcher.raised = "none" /\ call.kwargs[field].t = "date")
            => /\ matcher.query[field].t = "str"
               /\ StrLen(matcher.query[field]) = 8
               /\ \A k \in SearchRequests(net) :
                     StrLen(net[k].params[field]) = 8

\* C29: first() leaves the result set as it was: a second first() returns the
\* element the first returned, and an all() or hydrate() after first() covers
\* all count elements, the first of them the element first() returned.
C29_FirstDoesNotConsume ==
    (Len(ops) = 2 /\ ops[1].op = "first" /\ ops[1].result = "item"
     /\ server.failAt = 0 /\ matcher.kind \notin Unpaginated)
        => /\ ops[2].op = "first" => ops[2].items = ops[1].items
           /\ ops[2].op = "all"
                 => /\ Len(ops[2].items) = matcher.count
                    /\ ops[2].items[1] = ops[1].items[1]
           /\ ops[2].op \in HydrateOps
                 => /\ Len(ops[2].items) = matcher.count
                    /\ ops[2].items[1].v[1] = ops[1].items[1]

-----------------------------------------------------------------------------
(* Properties of the asynchronous Hydrator (SpecAsync).                    *)

\* The tasks whose fetch is in flight.
InFlight == {i \in 1..Len(taskpc) : taskpc[i].pc = "fetching"}

\* C30: at no moment of a rehydrate() are two hydrations of one record
\* instance in flight, or more than max_concurrent_requests fetches.
C30_HydrationsSerializedAndBounded ==
    /\ \A i, j \in InFlight : gathered.records[i] = gathered.records[j] => i = j
    /\ Cardinality(InFlight) <= gathered.max_concurrent_requests

=============================================================================
